---- MODULE Spec2Model ----
(***************************************************************************)
(* Risk-prediction service of Eduengage-AI (ml_service/app.py) and the     *)
(* trainer that produces its classifier artifact                           *)
(* (ml_service/train_comprehensive_model.py).                              *)
(*                                                                         *)
(* Numbers.  Feature values are fixed-point integers in hundredths         *)
(* (20.0 hours is 2000); probabilities are integers in units of 1/10000    *)
(* (0.7 is 7000), so that MockModel's (feature_sum % 100) / 100 is exact.  *)
(* A float is a record [nan, v]: NaN, or the finite value v.               *)
(***************************************************************************)
EXTENDS Integers, Sequences, FiniteSets, TLC

VARIABLES
    phase,        \* "offline" (process not started), "serving", "exited"
    artifact,     \* the model file in model_dir, with feature_names.json
    dbReachable,  \* whether MongoDB answers the ping
    db,           \* global db          (app.py:28)
    model,        \* global model       (app.py:27)
    request,      \* the request the last handler ran for, or None
    response,     \* the response it produced, not yet sent, or None
    calls,        \* collaborator calls the last handler made
    received,     \* the last /predict assessment a client has received
    bundle,       \* a fetched learner document and its activities
    extracted,    \* what the extraction of bundle returned, once it ran
    threads,      \* the request each worker thread is serving, and how far
    run           \* one extraction taken step by step while the clock advances

vars == <<phase, artifact, dbReachable, db, model, request, response, calls, received,
          bundle, extracted, threads, run>>

\* Largest number of identifiers in one batch request.
MaxBatch == 3

\* Largest number of enrollments of a learner and of activities fetched for
\* one, and the number of worker threads serving requests at a time.
MaxEnrollments == 2
MaxActivities == 2
MaxThreads == 2

(***************************************************************************)
(* Identifiers.  A request carries a string; bson.ObjectId accepts it iff  *)
(* it is 24 characters long and all of them are hexadecimal digits.  A     *)
(* string is represented by its text, its length and whether it is hex.    *)
(***************************************************************************)
IdMalformed == [text |-> "test_learner_123", len |-> 16, hex |-> FALSE]
IdAbsent == [text |-> "507f1f77bcf86cd799439011", len |-> 24, hex |-> TRUE]
IdA == [text |-> "64b000000000000000000001", len |-> 24, hex |-> TRUE]
IdB == [text |-> "64b000000000000000000002", len |-> 24, hex |-> TRUE]
IdU == [text |-> "64b000000000000000000003", len |-> 24, hex |-> TRUE]
IdN == [text |-> "64b000000000000000000004", len |-> 24, hex |-> TRUE]
IdZ == [text |-> "64b000000000000000000005", len |-> 24, hex |-> TRUE]

Identifiers == {IdMalformed, IdAbsent, IdA, IdB, IdU, IdN, IdZ}

InvalidId == "InvalidId"

\* ObjectId without the format check: every string is taken as a key.
ObjectId_unchecked(s) == s.text

\* bson.ObjectId(learner_id_str): the key, or InvalidId when it raises.
ObjectId(s) ==
    IF s.len = 24 /\ s.hex THEN s.text ELSE InvalidId

(***************************************************************************)
(* Floats and stored (BSON) values.                                        *)
(***************************************************************************)
Num(n) == [nan |-> FALSE, v |-> n]
NaN == [nan |-> TRUE, v |-> 0]

\* n whole units as hundredths.
Fx(n) == n * 100

Double(x) == [type |-> "double", num |-> x, str |-> ""]
String(s) == [type |-> "string", num |-> Num(0), str |-> s]

\* dict.get(key, default)
Get(doc, key, default) ==
    IF key \in DOMAIN doc THEN doc[key] ELSE default

\* float that gives 0.0 for a string that is not a number instead of raising.
float_lenient(x) ==
    CASE x.type = "double" -> [raised |-> FALSE, val |-> x.num]
      [] x.type = "string" /\ x.str = "nan" -> [raised |-> FALSE, val |-> NaN]
      [] OTHER -> [raised |-> FALSE, val |-> Num(0)]

\* Python float(x): the float, or raised (ValueError) for a string that is
\* not a number.
float(x) ==
    CASE x.type = "double" -> [raised |-> FALSE, val |-> x.num]
      [] x.type = "string" /\ x.str = "nan" -> [raised |-> FALSE, val |-> NaN]
      [] OTHER -> [raised |-> TRUE, val |-> Num(0)]

\* Python int(x): truncation toward zero; raised (ValueError) for NaN and
\* for a string that is not a number.
int(x) ==
    CASE x.type = "double" /\ ~x.num.nan /\ x.num.v >= 0 ->
            [raised |-> FALSE, val |-> Num((x.num.v \div 100) * 100)]
      [] x.type = "double" /\ ~x.num.nan /\ x.num.v < 0 ->
            [raised |-> FALSE, val |-> Num(0 - (((0 - x.num.v) \div 100) * 100))]
      [] OTHER -> [raised |-> TRUE, val |-> Num(0)]

\* a / d for an integer d, kept to hundredths; NaN stands for the value
\* there is none of when d is 0.
FDiv(a, d) ==
    IF a.nan \/ d = 0 THEN NaN
    ELSE IF d > 0 THEN Num(a.v \div d)
    ELSE Num(0 - (a.v \div (0 - d)))

Max(a, b) == IF a >= b THEN a ELSE b
Min(a, b) == IF a <= b THEN a ELSE b

\* datetime.utcnow(), as a day number.
now == 400

(***************************************************************************)
(* The store.  Learner documents of the upgrad database, keyed by _id.     *)
(* A: 20 hours; B: 45 hours; U: totalHours holds a non-numeric string;     *)
(* N: totalHours holds a stored NaN; Z: 20 hours and a joinDate written as *)
(* an ISO-8601 string with a trailing Z, 10 days old.  None of them has a  *)
(* last login, enrollments or activities, and only Z has a join date.      *)
(***************************************************************************)
Learners ==
    [k \in {IdA.text, IdB.text, IdU.text, IdN.text, IdZ.text} |->
        CASE k = IdA.text -> [name |-> "A", engagementData |-> [totalHours |-> Double(Num(Fx(20)))]]
          [] k = IdB.text -> [name |-> "B", engagementData |-> [totalHours |-> Double(Num(Fx(45)))]]
          [] k = IdU.text -> [name |-> "U", engagementData |-> [totalHours |-> String("abc")]]
          [] k = IdN.text -> [name |-> "N", engagementData |-> [totalHours |-> Double(NaN)]]
          [] k = IdZ.text -> [name |-> "Z",
                              joinDate |-> [repr |-> "string", day |-> now - 10, form |-> "Z"],
                              engagementData |-> [totalHours |-> Double(Num(Fx(20)))]]]

\* db.activities.find({'learner_id': learner_id}): no learner has any.
Activities(learner_id) == <<>>

\* db.learners.find_one({'_id': learner_id}): the document, or NoDocument
\* (Python None) when there is none.
NoDocument == [name |-> "None"]

find_one(learner_id) ==
    IF learner_id \in DOMAIN Learners THEN Learners[learner_id] ELSE NoDocument

(***************************************************************************)
(* Feature extraction at inference.                                        *)
(***************************************************************************)
\* The fields in the order of the dict the training script builds
\* (train_comprehensive_model.py:231-295) instead of the sorted order.
FeatureNames_dict_order ==
    << "days_since_join", "days_since_last_login",
       "total_hours", "streak_days", "avg_session_time", "completion_rate",
       "weekly_goal_hours",
       "total_courses", "avg_progress", "max_progress", "min_progress",
       "progress_std", "avg_risk_score", "max_risk_score",
       "completed_courses", "active_courses", "at_risk_courses",
       "beginner_courses", "intermediate_courses", "advanced_courses",
       "total_activities", "video_activities", "quiz_activities",
       "forum_activities", "assignment_activities", "recent_activities_7d",
       "recent_activities_30d", "avg_activity_duration",
       "total_activity_time", "max_activity_duration",
       "engagement_consistency", "progress_rate", "course_load",
       "hours_per_day", "activity_rate_daily", "recent_activity_trend",
       "avg_days_since_course_activity", "max_days_since_course_activity",
       "inactivity_risk", "low_progress_risk", "high_risk_courses_ratio",
       "declining_engagement" >>

\* The order in which extract_learner_features lists its fields.
FeatureNames ==
    << "active_courses", "activity_rate_daily", "advanced_courses",
       "assignment_activities", "at_risk_courses", "avg_activity_duration",
       "avg_days_since_course_activity", "avg_progress", "avg_risk_score",
       "avg_session_time", "beginner_courses", "completed_courses",
       "completion_rate", "course_load", "days_since_join",
       "days_since_last_login", "declining_engagement",
       "engagement_consistency", "forum_activities",
       "high_risk_courses_ratio", "hours_per_day", "inactivity_risk",
       "intermediate_courses", "low_progress_risk", "max_activity_duration",
       "max_days_since_course_activity", "max_progress", "max_risk_score",
       "min_progress", "progress_rate", "progress_std", "quiz_activities",
       "recent_activities_30d", "recent_activities_7d",
       "recent_activity_trend", "streak_days", "total_activities",
       "total_activity_time", "total_courses", "total_hours",
       "video_activities", "weekly_goal_hours" >>

\* What extract_learner_features returns for Python None.
NoFeatures == << >>

\* The engagement summary: five conversions (app.py:193-198); raised when
\* one of them raises.
EngagementFields == <<"totalHours", "streakDays", "avgSessionTime", "completionRate", "weeklyGoalHours">>

EngagementSummary(engagement) ==
    LET stored(i) == Get(engagement, EngagementFields[i], Double(Num(0)))
        conv == [i \in 1..Len(EngagementFields) |->
                    IF EngagementFields[i] = "streakDays"
                    THEN int(stored(i)) ELSE float(stored(i))]
    IN  [raised |-> \E i \in 1..Len(EngagementFields) : conv[i].raised,
         total_hours |-> conv[1].val,
         streak_days |-> conv[2].val,
         avg_session_time |-> conv[3].val,
         completion_rate |-> conv[4].val,
         weekly_goal_hours |-> conv[5].val]

(***************************************************************************)
(* Timestamps.  A stored timestamp is a native (naive) datetime or a       *)
(* string; instants are day numbers.  A string is "Z" (ISO-8601 with a     *)
(* trailing Z), "plain" (ISO-8601 without offset) or "bad" (not ISO-8601). *)
(***************************************************************************)
Datetime(d) == [repr |-> "datetime", day |-> d, form |-> "naive"]
IsoString(d, form) == [repr |-> "string", day |-> d, form |-> form]

\* now = datetime.utcnow(): a naive datetime.
utcnow == Datetime(now)

\* The isinstance(x, str) block: datetime.fromisoformat(x.replace('Z',
\* '+00:00')) gives an aware datetime for a "Z" string and a naive one for a
\* "plain" string; when it raises, the value becomes now.
Normalize(x) ==
    CASE x.repr = "string" /\ x.form = "Z" ->
            [repr |-> "datetime", day |-> x.day, form |-> "aware"]
      [] x.repr = "string" /\ x.form = "plain" ->
            [repr |-> "datetime", day |-> x.day, form |-> "naive"]
      [] x.repr = "string" -> utcnow
      [] OTHER -> x

\* (now - x).days after the isinstance block; subtracting an aware datetime
\* from the naive now raises TypeError.
DaysSince(x) ==
    LET t == Normalize(x)
    IN  IF t.form = "aware"
        THEN [raised |-> TRUE, days |-> 0]
        ELSE [raised |-> FALSE, days |-> now - t.day]

(***************************************************************************)
(* numpy reductions over a list of floats, kept to hundredths.             *)
(***************************************************************************)
AnyNaN(xs) == \E i \in 1..Len(xs) : xs[i].nan

RECURSIVE SumV(_, _)
SumV(xs, i) == IF i > Len(xs) THEN 0 ELSE xs[i].v + SumV(xs, i + 1)

RECURSIVE SumSq(_, _)
SumSq(xs, i) == IF i > Len(xs) THEN 0 ELSE xs[i].v * xs[i].v + SumSq(xs, i + 1)

\* The largest r with r * r <= x, searched upward from r.
RECURSIVE ISqrtFrom(_, _)
ISqrtFrom(x, r) == IF (r + 1) * (r + 1) > x THEN r ELSE ISqrtFrom(x, r + 1)

ISqrt(x) == ISqrtFrom(x, 0)

\* np.mean of the empty list is NaN (with a warning).
np_mean(xs) ==
    IF Len(xs) = 0 \/ AnyNaN(xs) THEN NaN ELSE Num(SumV(xs, 1) \div Len(xs))

\* np.max and np.min raise on the empty list (the caller flags it).
np_max(xs) ==
    IF Len(xs) = 0 \/ AnyNaN(xs) THEN NaN
    ELSE Num(CHOOSE m \in {xs[i].v : i \in 1..Len(xs)} :
                \A i \in 1..Len(xs) : xs[i].v <= m)

np_min(xs) ==
    IF Len(xs) = 0 \/ AnyNaN(xs) THEN NaN
    ELSE Num(CHOOSE m \in {xs[i].v : i \in 1..Len(xs)} :
                \A i \in 1..Len(xs) : xs[i].v >= m)

\* np.std: the population standard deviation, sqrt(n * sum(x^2) - sum(x)^2) / n.
np_std(xs) ==
    IF Len(xs) = 0 \/ AnyNaN(xs) THEN NaN
    ELSE LET n == Len(xs)
             sum == SumV(xs, 1)
         IN  Num(ISqrt(n * SumSq(xs, 1) - sum * sum) \div n)

(***************************************************************************)
(* db.courses.                                                             *)
(***************************************************************************)
Courses ==
    [c \in {"c1", "c2", "c3", "c4"} |->
        CASE c = "c1" -> [difficulty |-> "beginner"]
          [] c = "c2" -> [difficulty |-> "intermediate"]
          [] c = "c3" -> [difficulty |-> "advanced"]
          [] c = "c4" -> [difficulty |-> "expert"]]

\* list(db.courses.find({'_id': {'$in': course_ids}})): each course whose
\* _id is among course_ids, once.
courses_find(course_ids) ==
    {c \in DOMAIN Courses : \E i \in 1..Len(course_ids) : course_ids[i] = c}

(***************************************************************************)
(* The ratio lines.  Each gives the value and whether the division raised  *)
(* ZeroDivisionError.                                                      *)
(***************************************************************************)
\* a / d for numbers a and d of plain Python types.
Div(a, d) == [raised |-> d = 0, val |-> FDiv(a, d)]

NoDiv(x) == [raised |-> FALSE, val |-> x]

\* app.py:299
activity_rate_daily(total_activities, days_since_join) ==
    Div(Num(Fx(total_activities)), Max(days_since_join, 1))

\* The trend as the bare quotient of the two counts.
recent_activity_trend_unguarded(recent_activities_7d, recent_activities_30d) ==
    Div(Num(Fx(recent_activities_7d)), recent_activities_30d)

\* app.py:300
recent_activity_trend(recent_activities_7d, recent_activities_30d) ==
    IF recent_activities_30d > 0
    THEN Div(Num(Fx(recent_activities_7d)), Max(recent_activities_30d, 1))
    ELSE NoDiv(Num(0))

\* app.py:310
engagement_consistency(streak_days, days_since_join) ==
    Div(streak_days, Max(days_since_join, 1))

\* progress_rate without the branch for a learner who joined today.
progress_rate_unbranched(avg_progress, days_since_join) ==
    Div(avg_progress, Max(days_since_join, 1))

\* app.py:311
progress_rate(avg_progress, days_since_join) ==
    IF days_since_join > 0
    THEN Div(avg_progress, Max(days_since_join, 1))
    ELSE NoDiv(Num(0))

\* app.py:312.  total_courses / max(days_since_join / 30, 1), with numerator
\* and denominator multiplied by 30.
course_load(total_courses, days_since_join) ==
    IF days_since_join > 0
    THEN Div(Num(Fx(total_courses) * 30), Max(days_since_join, 30))
    ELSE NoDiv(Num(0))

\* hours_per_day as the bare quotient by days_since_join.
hours_per_day_unguarded(total_hours, days_since_join) ==
    Div(total_hours, days_since_join)

\* app.py:313
hours_per_day(total_hours, days_since_join) ==
    Div(total_hours, Max(days_since_join, 1))

\* The share of at-risk courses as a percentage.
high_risk_courses_percent(at_risk_courses, total_courses) ==
    IF total_courses > 0
    THEN Div(Num(Fx(at_risk_courses) * 100), Max(total_courses, 1))
    ELSE NoDiv(Num(0))

\* app.py:318
high_risk_courses_ratio(at_risk_courses, total_courses) ==
    IF total_courses > 0
    THEN Div(Num(Fx(at_risk_courses)), Max(total_courses, 1))
    ELSE NoDiv(Num(0))

\* The window test with the boundary day left out.
WithinDays_exclusive(days_ago, N) == days_ago < N

\* days_ago <= 7 and days_ago <= 30 (app.py:286-289)
WithinDays(days_ago, N) == days_ago <= N

\* x > c and x < c on floats: false when x is NaN.
GreaterThan(x, c) == ~x.nan /\ x.v > c
LessThan(x, c) == ~x.nan /\ x.v < c

(***************************************************************************)
(* The three blocks of extract_learner_features.                           *)
(***************************************************************************)
\* The else branch at app.py:254-260.
EnrollmentDefaults ==
    [raised |-> FALSE,
     avg_progress |-> Num(0), max_progress |-> Num(0), min_progress |-> Num(0),
     progress_std |-> Num(0),
     avg_risk_score |-> Num(30), max_risk_score |-> Num(30),
     completed_courses |-> 0, active_courses |-> 0, at_risk_courses |-> 0,
     beginner_courses |-> 0, intermediate_courses |-> 0, advanced_courses |-> 0,
     avg_days_since_course_activity |-> Num(0),
     max_days_since_course_activity |-> Num(0)]

\* The branch total_courses > 0 (app.py:214-252).  On an empty list np.max
\* raises ValueError.
EnrollmentStatistics(enrollments) ==
    LET n == Len(enrollments)
        progress == [i \in 1..n |-> float(Get(enrollments[i], "progress", Double(Num(0))))]
        risk == [i \in 1..n |-> float(Get(enrollments[i], "riskScore", Double(Num(30))))]
        progress_values == [i \in 1..n |-> progress[i].val]
        risk_scores == [i \in 1..n |-> risk[i].val]
        status(i) == Get(enrollments[i], "status", "None")
        course_ids == SelectSeq([i \in 1..n |-> Get(enrollments[i], "courseId", "None")],
                                LAMBDA c : c # "None")
        courses_info == courses_find(course_ids)
        since == [i \in 1..n |-> DaysSince(Get(enrollments[i], "lastActivity", utcnow))]
        last_activities == [i \in 1..n |-> Num(Fx(since[i].days))]
    IN  [raised |-> \/ n = 0
                    \/ \E i \in 1..n : progress[i].raised \/ risk[i].raised \/ since[i].raised,
         avg_progress |-> np_mean(progress_values),
         max_progress |-> np_max(progress_values),
         min_progress |-> np_min(progress_values),
         progress_std |-> IF Len(progress_values) > 1 THEN np_std(progress_values) ELSE Num(0),
         avg_risk_score |-> np_mean(risk_scores),
         max_risk_score |-> np_max(risk_scores),
         completed_courses |-> Cardinality({i \in 1..n : status(i) = "completed"}),
         active_courses |-> Cardinality({i \in 1..n : status(i) = "active"}),
         at_risk_courses |-> Cardinality({i \in 1..n : status(i) = "at-risk"}),
         beginner_courses |->
             Cardinality({c \in courses_info : Courses[c].difficulty = "beginner"}),
         intermediate_courses |->
             Cardinality({c \in courses_info : Courses[c].difficulty = "intermediate"}),
         advanced_courses |->
             Cardinality({c \in courses_info : Courses[c].difficulty = "advanced"}),
         avg_days_since_course_activity |-> np_mean(last_activities),
         max_days_since_course_activity |-> np_max(last_activities)]

\* The enrollment block without its guard: the statistics of whatever list
\* there is, the empty one included.
EnrollmentAggregates_unguarded(enrollments) ==
    EnrollmentStatistics(enrollments)

\* === COURSE ENROLLMENT FEATURES === (app.py:209-260)
EnrollmentAggregates(enrollments) ==
    IF Len(enrollments) > 0
    THEN EnrollmentStatistics(enrollments)
    ELSE EnrollmentDefaults

\* Defaults that give a learner without activities a trend of 1.
ActivityDefaults_unit_trend ==
    [raised |-> FALSE,
     video_activities |-> 0, quiz_activities |-> 0, forum_activities |-> 0,
     assignment_activities |-> 0,
     recent_activities_7d |-> 0, recent_activities_30d |-> 0,
     avg_activity_duration |-> Num(0), total_activity_time |-> Num(0),
     max_activity_duration |-> Num(0),
     activity_rate_daily |-> Num(0), recent_activity_trend |-> Num(Fx(1))]

\* The else branch at app.py:302-307.
ActivityDefaults ==
    [raised |-> FALSE,
     video_activities |-> 0, quiz_activities |-> 0, forum_activities |-> 0,
     assignment_activities |-> 0,
     recent_activities_7d |-> 0, recent_activities_30d |-> 0,
     avg_activity_duration |-> Num(0), total_activity_time |-> Num(0),
     max_activity_duration |-> Num(0),
     activity_rate_daily |-> Num(0), recent_activity_trend |-> Num(0)]

\* A duration test that lets a stored duration of 0 into the statistics.
duration_positive_or_zero(duration) ==
    duration.type = "double" /\ ~duration.num.nan /\ duration.num.v >= 0

\* `if duration > 0` (app.py:292), on the value activity.get('duration', 0)
\* gave: NaN > 0 is false.
duration_positive(duration) ==
    duration.type = "double" /\ ~duration.num.nan /\ duration.num.v > 0

\* The branch `if activities` (app.py:266-300).  A duration is compared with
\* 0 as stored: a string raises TypeError.
ActivityStatistics(activities, days_since_join) ==
    LET n == Len(activities)
        type(i) == Get(activities[i], "type", "None")
        since == [i \in 1..n |-> DaysSince(Get(activities[i], "timestamp", utcnow))]
        days_ago(i) == since[i].days
        recent_activities_7d == Cardinality({i \in 1..n : WithinDays(days_ago(i), 7)})
        recent_activities_30d == Cardinality({i \in 1..n : WithinDays(days_ago(i), 30)})
        duration == [i \in 1..n |-> Get(activities[i], "duration", Double(Num(0)))]
        positive == SelectSeq(duration, duration_positive)
        activity_durations == [i \in 1..Len(positive) |-> positive[i].num]
        rate == activity_rate_daily(n, days_since_join)
        trend == recent_activity_trend(recent_activities_7d, recent_activities_30d)
    IN  [raised |-> \/ \E i \in 1..n : since[i].raised \/ duration[i].type # "double"
                    \/ rate.raised \/ trend.raised,
         video_activities |-> Cardinality({i \in 1..n : type(i) = "video_watch"}),
         quiz_activities |-> Cardinality({i \in 1..n : type(i) = "quiz_attempt"}),
         forum_activities |-> Cardinality({i \in 1..n : type(i) = "forum_post"}),
         assignment_activities |-> Cardinality({i \in 1..n : type(i) = "assignment_submit"}),
         recent_activities_7d |-> recent_activities_7d,
         recent_activities_30d |-> recent_activities_30d,
         avg_activity_duration |->
             IF Len(activity_durations) > 0 THEN np_mean(activity_durations) ELSE Num(0),
         total_activity_time |->
             IF Len(activity_durations) > 0 THEN Num(SumV(activity_durations, 1)) ELSE Num(0),
         max_activity_duration |->
             IF Len(activity_durations) > 0 THEN np_max(activity_durations) ELSE Num(0),
         activity_rate_daily |-> rate.val,
         recent_activity_trend |-> trend.val]

\* === ACTIVITY PATTERN FEATURES === (app.py:262-307)
ActivityAggregates(activities, days_since_join) ==
    IF Len(activities) > 0
    THEN ActivityStatistics(activities, days_since_join)
    ELSE ActivityDefaults

\* An inactivity flag that is already raised on day 14.
inactivity_risk_inclusive(days_since_last_login) ==
    IF days_since_last_login >= 14 THEN Num(Fx(1)) ELSE Num(0)

\* inactivity_risk = 1 if days_since_last_login > 14 else 0 (app.py:316)
inactivity_risk(days_since_last_login) ==
    IF days_since_last_login > 14 THEN Num(Fx(1)) ELSE Num(0)

\* low_progress_risk = 1 if avg_progress < 0.2 and total_courses > 0 else 0
\* (app.py:317)
low_progress_risk(avg_progress, total_courses) ==
    IF LessThan(avg_progress, 20) /\ total_courses > 0 THEN Num(Fx(1)) ELSE Num(0)

\* declining_engagement = 1 if recent_activity_trend < 0.5 and
\* recent_activities_30d > 0 else 0 (app.py:319)
declining_engagement(trend, recent_activities_30d) ==
    IF LessThan(trend, 50) /\ recent_activities_30d > 0 THEN Num(Fx(1)) ELSE Num(0)

\* The 42 fields from the blocks computed before them (app.py:309-365), and
\* raised: whether an exception left the computation.  dates_raised tells
\* whether a date subtraction did, e, c and a are the engagement summary,
\* the enrollment aggregates and the activity aggregates.
FeatureRecord(dates_raised, days_since_join, days_since_last_login, e, total_courses, c, total_activities, a) ==
    LET consistency == engagement_consistency(e.streak_days, days_since_join)
        rate == progress_rate(c.avg_progress, days_since_join)
        load == course_load(total_courses, days_since_join)
        hours == hours_per_day(e.total_hours, days_since_join)
        ratio == high_risk_courses_ratio(c.at_risk_courses, total_courses)
    IN  [raised |-> \/ dates_raised \/ e.raised \/ c.raised \/ a.raised
                    \/ consistency.raised \/ rate.raised \/ load.raised
                    \/ hours.raised \/ ratio.raised,
         active_courses |-> Num(Fx(c.active_courses)),
         activity_rate_daily |-> a.activity_rate_daily,
         advanced_courses |-> Num(Fx(c.advanced_courses)),
         assignment_activities |-> Num(Fx(a.assignment_activities)),
         at_risk_courses |-> Num(Fx(c.at_risk_courses)),
         avg_activity_duration |-> a.avg_activity_duration,
         avg_days_since_course_activity |-> c.avg_days_since_course_activity,
         avg_progress |-> c.avg_progress,
         avg_risk_score |-> c.avg_risk_score,
         avg_session_time |-> e.avg_session_time,
         beginner_courses |-> Num(Fx(c.beginner_courses)),
         completed_courses |-> Num(Fx(c.completed_courses)),
         completion_rate |-> e.completion_rate,
         course_load |-> load.val,
         days_since_join |-> Num(Fx(days_since_join)),
         days_since_last_login |-> Num(Fx(days_since_last_login)),
         declining_engagement |->
             declining_engagement(a.recent_activity_trend, a.recent_activities_30d),
         engagement_consistency |-> consistency.val,
         forum_activities |-> Num(Fx(a.forum_activities)),
         high_risk_courses_ratio |-> ratio.val,
         hours_per_day |-> hours.val,
         inactivity_risk |-> inactivity_risk(days_since_last_login),
         intermediate_courses |-> Num(Fx(c.intermediate_courses)),
         low_progress_risk |-> low_progress_risk(c.avg_progress, total_courses),
         max_activity_duration |-> a.max_activity_duration,
         max_days_since_course_activity |-> c.max_days_since_course_activity,
         max_progress |-> c.max_progress,
         max_risk_score |-> c.max_risk_score,
         min_progress |-> c.min_progress,
         progress_rate |-> rate.val,
         progress_std |-> c.progress_std,
         quiz_activities |-> Num(Fx(a.quiz_activities)),
         recent_activities_30d |-> Num(Fx(a.recent_activities_30d)),
         recent_activities_7d |-> Num(Fx(a.recent_activities_7d)),
         recent_activity_trend |-> a.recent_activity_trend,
         streak_days |-> e.streak_days,
         total_activities |-> Num(Fx(total_activities)),
         total_activity_time |-> a.total_activity_time,
         total_courses |-> Num(Fx(total_courses)),
         total_hours |-> e.total_hours,
         video_activities |-> Num(Fx(a.video_activities)),
         weekly_goal_hours |-> e.weekly_goal_hours]

\* The blocks in the order of the code: the two day counts are clamped at 0
\* (app.py:190, 207), then the enrollment and the activity block.
FromBlocks(join, login, e, enrollments, activities) ==
    FeatureRecord(join.raised \/ login.raised, Max(join.days, 0), Max(login.days, 0), e,
                  Len(enrollments), EnrollmentAggregates(enrollments),
                  Len(activities), ActivityAggregates(activities, Max(join.days, 0)))

\* What extract_learner_features computes from the learner and its
\* activities (app.py:183-319).
FeatureValues(learner, activities) ==
    FromBlocks(DaysSince(Get(learner, "joinDate", utcnow)),
               DaysSince(Get(Get(learner, "engagementData", << >>), "lastLogin", utcnow)),
               EngagementSummary(Get(learner, "engagementData", << >>)),
               Get(learner, "enrollments", << >>),
               activities)

\* An exception that leaves extract_learner_features, as its caller sees it.
Propagated == <<"Exception">>

\* The function without its outer except clause: an exception raised inside
\* reaches the caller.
ListOrNone_uncaught(f) ==
    IF f.raised THEN Propagated
    ELSE [i \in 1..Len(FeatureNames) |-> f[FeatureNames[i]]]

\* The features = [...] list of app.py:322-365, or NoFeatures when an
\* exception was caught (app.py:370-373).
ListOrNone(f) ==
    IF f.raised THEN NoFeatures
    ELSE [i \in 1..Len(FeatureNames) |-> f[FeatureNames[i]]]

Features(learner, activities) == ListOrNone(FeatureValues(learner, activities))

\* extract_learner_features(learner_id_str): the feature list, or NoFeatures.
\* Every exception inside is caught and gives NoFeatures (app.py:370-373).
extract_learner_features(learner_id_str) ==
    LET learner_id == ObjectId(learner_id_str)
        learner == find_one(learner_id)
    IN  CASE learner_id = InvalidId -> NoFeatures
          [] learner = NoDocument -> NoFeatures
          [] OTHER -> Features(learner, Activities(learner_id))

\* The store and classifier calls one extraction attempt gets to make.
FindOneCalls(learner_id_str) ==
    IF ObjectId(learner_id_str) = InvalidId THEN 0 ELSE 1

(***************************************************************************)
(* Classifiers.  A model is a record: kind "none" (Python None),           *)
(* "MockModel" or "sklearn" (an estimator loaded from the artifact).  An   *)
(* estimator is a fixed function of the row: proba gives its answer for    *)
(* each finite row the store's learners extract to.  On a row holding NaN  *)
(* an estimator either raises or answers, depending on the estimator and   *)
(* the library version: accepts_nan and nan_proba.                         *)
(***************************************************************************)
\* Probabilities an estimator may answer, around the bucket boundaries.
Samples == {3000, 3500, 7000, 7001}

FiniteRows ==
    {extract_learner_features(id) : id \in {IdA, IdB}}

NoModel ==
    [kind |-> "none", n_features_in_ |-> 0, feature_names |-> << >>,
     proba |-> << >>, accepts_nan |-> FALSE, nan_proba |-> 0]

\* MockModel.__init__
MockModel ==
    [kind |-> "MockModel", n_features_in_ |-> 42, feature_names |-> << >>,
     proba |-> << >>, accepts_nan |-> TRUE, nan_proba |-> 0]

Estimator(width, names, table, nanOk, nanP) ==
    [kind |-> "sklearn", n_features_in_ |-> width, feature_names |-> names,
     proba |-> table, accepts_nan |-> nanOk, nan_proba |-> nanP]

HasNaN(row) == \E i \in 1..Len(row) : row[i].nan

RECURSIVE SumFrom(_, _)
SumFrom(row, i) ==
    IF i > Len(row) THEN 0 ELSE row[i].v + SumFrom(row, i + 1)

\* np.sum(row): NaN when any entry is NaN.
np_sum(row) ==
    IF HasNaN(row) THEN NaN ELSE Num(SumFrom(row, 1))

\* MockModel.predict_proba on one row: min(0.9, max(0.1, (sum % 100) / 100)).
\* With a NaN sum, max(0.1, nan) is 0.1 (nan > 0.1 is false).
MockModel_predict_proba(row) ==
    LET feature_sum == np_sum(row)
        frac == IF feature_sum.nan THEN NaN ELSE Num(feature_sum.v % 10000)
        lower == IF frac.nan THEN 1000 ELSE Max(1000, frac.v)
    IN  Min(9000, lower)

Raised == -1

\* model.predict_proba(feature_array)[0][1]: the probability of the positive
\* class, or Raised.  With no model loaded the attribute access raises; an
\* estimator raises on a row of another width than it was fitted on; on a
\* row holding NaN it raises unless it accepts NaN.
predict_proba(m, row) ==
    CASE m.kind = "MockModel" -> MockModel_predict_proba(row)
      [] m.kind = "none" -> Raised
      [] m.kind = "sklearn" /\ Len(row) # m.n_features_in_ -> Raised
      [] m.kind = "sklearn" /\ HasNaN(row) ->
            IF m.accepts_nan THEN m.nan_proba ELSE Raised
      [] OTHER -> m.proba[row]

(***************************************************************************)
(* Requests and responses.  A JSON body is a record; the empty body is     *)
(* the empty record.  A response is a status and a JSON body; the          *)
(* timestamp field of the bodies is left out.                              *)
(***************************************************************************)
EmptyJson == << >>

NoRequest == [endpoint |-> "none", json |-> EmptyJson]
NoResponse == [endpoint |-> "none", status |-> 0, body |-> EmptyJson]
NoCalls == [find_one |-> 0, predict_proba |-> 0]
NoAssessment == [risk_score |-> Raised, risk_level |-> "none"]

Reply(endpoint, status, body, finds, predicts) ==
    [response |-> [endpoint |-> endpoint, status |-> status, body |-> body],
     calls |-> [find_one |-> finds, predict_proba |-> predicts]]

\* str(e) of the exception the classifier call raised.
ClassifierError == "classifier call failed"

\* str(e) of an exception that reached a handler from the extraction.
ExtractionError == "extraction failed"

\* The bucketing with the branches for medium and low exchanged.
risk_level_predict_swapped(risk_score) ==
    IF risk_score > 7000 THEN "high"
    ELSE IF risk_score > 3000 THEN "low" ELSE "medium"

\* app.py:413
risk_level_predict(risk_score) ==
    IF risk_score > 7000 THEN "high"
    ELSE IF risk_score > 3000 THEN "medium" ELSE "low"

\* The bucketing with 0.4 as its lower threshold.
risk_level_batch_04(risk_score) ==
    IF risk_score > 7000 THEN "high"
    ELSE IF risk_score > 4000 THEN "medium" ELSE "low"

\* app.py:456
risk_level_batch(risk_score) ==
    IF risk_score > 7000 THEN "high"
    ELSE IF risk_score > 3000 THEN "medium" ELSE "low"

\* app.py:533
risk_level_analysis(risk_score) ==
    IF risk_score > 7000 THEN "high"
    ELSE IF risk_score > 3000 THEN "medium" ELSE "low"

\* feature_array = np.array(features).reshape(1, -1) (app.py:409, 449, 519):
\* the one row handed to predict_proba holds the entries of the list as they
\* are, NaN included.
feature_array(features) == features

\* POST /predict
predict_risk(m, data) ==
    IF "learner_id" \notin DOMAIN data
    THEN Reply("/predict", 400, [error |-> "learner_id is required"], 0, 0)
    ELSE
      LET learner_id == data.learner_id
          features == extract_learner_features(learner_id)
          finds == FindOneCalls(learner_id)
          risk_score == predict_proba(m, feature_array(features))
      IN  CASE features = Propagated ->
                 Reply("/predict", 500, [error |-> ExtractionError], finds, 0)
            [] features = NoFeatures ->
                 Reply("/predict", 404,
                       [error |-> "Learner not found or could not extract features"],
                       finds, 0)
            [] features # NoFeatures /\ risk_score = Raised ->
                 Reply("/predict", 500, [error |-> ClassifierError], finds, 1)
            [] OTHER ->
                 Reply("/predict", 200,
                       [learner_id |-> learner_id,
                        risk_score |-> risk_score,
                        risk_level |-> risk_level_predict(risk_score),
                        features_used |-> Len(features)],
                       finds, 1)

\* The loop of predict_batch from position i on: the entries appended, the
\* calls made, and whether the classifier call raised (which leaves the loop).
RECURSIVE BatchLoop(_, _, _, _, _, _)
BatchLoop(m, learner_ids, i, results, finds, predicts) ==
    IF i > Len(learner_ids)
    THEN [raised |-> FALSE, results |-> results, finds |-> finds, predicts |-> predicts]
    ELSE
      LET learner_id == learner_ids[i]
          features == extract_learner_features(learner_id)
          f == finds + FindOneCalls(learner_id)
          risk_score == predict_proba(m, feature_array(features))
      IN  CASE features = Propagated ->
                 [raised |-> TRUE, results |-> results, finds |-> f, predicts |-> predicts]
            [] features = NoFeatures ->
                 BatchLoop(m, learner_ids, i + 1,
                           Append(results, [learner_id |-> learner_id,
                                            error |-> "Could not extract features"]),
                           f, predicts)
            [] features # NoFeatures /\ risk_score = Raised ->
                 [raised |-> TRUE, results |-> results, finds |-> f, predicts |-> predicts + 1]
            [] OTHER ->
                 BatchLoop(m, learner_ids, i + 1,
                           Append(results, [learner_id |-> learner_id,
                                            risk_score |-> risk_score,
                                            risk_level |-> risk_level_batch(risk_score)]),
                           f, predicts + 1)

\* POST /predict/batch
predict_batch(m, data) ==
    IF "learner_ids" \notin DOMAIN data
    THEN Reply("/predict/batch", 400, [error |-> "learner_ids array is required"], 0, 0)
    ELSE
      LET loop == BatchLoop(m, data.learner_ids, 1, << >>, 0, 0)
      IN  IF loop.raised
          THEN Reply("/predict/batch", 500, [error |-> ClassifierError],
                     loop.finds, loop.predicts)
          ELSE Reply("/predict/batch", 200, [results |-> loop.results],
                     loop.finds, loop.predicts)

\* GET /analytics/learner/<learner_id>.  Python's features[k] is row k + 1.
get_learner_analysis(m, learner_id) ==
    LET features == extract_learner_features(learner_id)
        finds == FindOneCalls(learner_id)
        risk_score == predict_proba(m, feature_array(features))
        total_courses == features[38 + 1]
        avg_progress == features[7 + 1]
        completion_rate == features[12 + 1]
        days_since_last_login == features[15 + 1]
        total_hours == features[39 + 1]
        risk_factors ==
            (IF GreaterThan(days_since_last_login, 700)
             THEN <<"Inactive for over a week">> ELSE << >>)
            \o (IF LessThan(avg_progress, 30)
                THEN <<"Low progress across courses">> ELSE << >>)
            \o (IF LessThan(completion_rate, 50)
                THEN <<"Low completion rate">> ELSE << >>)
        recommendations ==
            IF risk_score > 5000
            THEN <<"Consider personalized intervention",
                   "Increase engagement through gamification">>
            ELSE << >>
    IN  CASE features = Propagated ->
               Reply("/analytics/learner", 500, [error |-> ExtractionError], finds, 0)
          [] features = NoFeatures ->
               Reply("/analytics/learner", 404,
                     [error |-> "Learner not found or could not extract features"],
                     finds, 0)
          [] features # NoFeatures /\ risk_score = Raised ->
               Reply("/analytics/learner", 500, [error |-> ClassifierError], finds, 1)
          [] OTHER ->
               Reply("/analytics/learner", 200,
                     [learner_id |-> learner_id,
                      risk_score |-> risk_score,
                      risk_level |-> risk_level_analysis(risk_score),
                      key_metrics |-> [total_courses |-> total_courses,
                                       avg_progress |-> avg_progress,
                                       completion_rate |-> completion_rate,
                                       days_since_last_login |-> days_since_last_login,
                                       total_hours |-> total_hours],
                      risk_factors |-> risk_factors,
                      recommendations |-> recommendations],
                     finds, 1)

\* GET /health.  model_features is present when a model is loaded (both
\* MockModel and a fitted estimator have n_features_in_).
health_check(m, d) ==
    LET status == [status |-> "healthy",
                   model_loaded |-> m.kind # "none",
                   database_connected |-> d # "None"]
    IN  IF m.kind # "none"
        THEN Reply("/health", 200,
                   [status |-> status.status,
                    model_loaded |-> status.model_loaded,
                    database_connected |-> status.database_connected,
                    model_features |-> m.n_features_in_], 0, 0)
        ELSE Reply("/health", 200, status, 0, 0)

(***************************************************************************)
(* Start-up.                                                               *)
(***************************************************************************)
\* connect_to_database: the db handle it leaves in the global, and its result.
connect_to_database(reachable) ==
    IF reachable THEN [db |-> "upgrad", result |-> TRUE]
                 ELSE [db |-> "None", result |-> FALSE]

\* load_model: the model it leaves in the global, and its result.  A file
\* that is absent, or that neither joblib nor pickle can load, leaves the
\* global None and MockModel is put in its place.  feature_names.json is
\* read and only its length is logged; n_features_in_ is only logged.
load_model(art) ==
    LET loaded == IF art.file = "estimator" THEN art.estimator ELSE NoModel
    IN  IF loaded.kind = "none"
        THEN [model |-> MockModel, result |-> TRUE]
        ELSE [model |-> loaded, result |-> TRUE]

\* initialize_app: False when the database or the model failed.
initialize_app(dbc, ml) ==
    IF ~dbc.result THEN FALSE
    ELSE IF ~ml.result THEN FALSE
    ELSE TRUE

(***************************************************************************)
(* Training.                                                               *)
(***************************************************************************)
\* The keys of the per-learner dict of extract_comprehensive_features, in
\* insertion order: the columns of the DataFrame.
TrainingKeys ==
    << "days_since_join", "days_since_last_login",
       "total_hours", "streak_days", "avg_session_time", "completion_rate",
       "weekly_goal_hours",
       "total_courses", "avg_progress", "max_progress", "min_progress",
       "progress_std", "avg_risk_score", "max_risk_score",
       "completed_courses", "active_courses", "at_risk_courses",
       "beginner_courses", "intermediate_courses", "advanced_courses",
       "total_activities", "video_activities", "quiz_activities",
       "forum_activities", "assignment_activities", "recent_activities_7d",
       "recent_activities_30d", "avg_activity_duration",
       "total_activity_time", "max_activity_duration",
       "engagement_consistency", "progress_rate", "course_load",
       "hours_per_day", "activity_rate_daily", "recent_activity_trend",
       "avg_days_since_course_activity", "max_days_since_course_activity",
       "inactivity_risk", "low_progress_risk", "high_risk_courses_ratio",
       "declining_engagement",
       "is_high_risk",
       "learner_id" >>

\* [col for col in df.columns if col not in ['is_high_risk', 'learner_id']]
feature_columns ==
    SelectSeq(TrainingKeys, LAMBDA col : col \notin {"is_high_risk", "learner_id"})

\* The learners extract_comprehensive_features gets a row for: a learner
\* whose conversions raise is skipped (train_comprehensive_model.py:299-301).
TrainingRows ==
    {k \in DOMAIN Learners :
        ~EngagementSummary(Get(Learners[k], "engagementData", << >>)).raised}

\* The estimators fitting can give: any function of the rows, fitted on
\* Len(feature_columns) columns.
FittedEstimators ==
    {Estimator(Len(feature_columns), feature_columns, table, FALSE, 0) :
        table \in [FiniteRows -> Samples]}
    \cup
    {Estimator(Len(feature_columns), feature_columns, table, TRUE, nanP) :
        table \in [FiniteRows -> Samples], nanP \in Samples}

(***************************************************************************)
(* The artifact in model_dir.                                              *)
(***************************************************************************)
\* Widths of estimators fitted by something else than train_models.
ForeignWidths == {41, 43}

InitialArtifacts ==
    {[file |-> "absent", estimator |-> NoModel],
     [file |-> "corrupt", estimator |-> NoModel]}
    \cup
    {[file |-> "estimator", estimator |-> Estimator(w, << >>, << >>, FALSE, 0)] :
        w \in ForeignWidths}

\* What bundle, extracted and threads hold while nothing is being extracted
\* and no worker thread serves a request.
NoBundle == [learner |-> NoDocument, activities |-> << >>]
NotExtracted == [done |-> FALSE, features |-> NoFeatures]
\* What run holds while no extraction is taken step by step: the position,
\* the wall clock, the number of times it was read, the local `now`, and the
\* day counts computed so far.
NotRunning ==
    [pc |-> "idle", clock |-> now, reads |-> 0, now |-> now,
     days_since_join |-> 0, days_since_last_login |-> 0,
     course_days |-> << >>, days_ago |-> << >>]
IdleThread ==
    [pc |-> "idle", req |-> NoRequest, i |-> 0, results |-> << >>, resp |-> NoResponse]
NoThreads == [t \in 1..MaxThreads |-> IdleThread]

(***************************************************************************)
(* The state machine.                                                      *)
(***************************************************************************)
Init ==
    /\ phase = "offline"
    /\ artifact \in InitialArtifacts
    /\ dbReachable \in BOOLEAN
    /\ db = "None"
    /\ model = NoModel
    /\ request = NoRequest
    /\ response = NoResponse
    /\ calls = NoCalls
    /\ received = NoAssessment
    /\ bundle = NoBundle
    /\ extracted = NotExtracted
    /\ threads = NoThreads
    /\ run = NotRunning

\* python train_comprehensive_model.py: connects (raises when the database
\* does not answer), returns without saving when no row was extracted, and
\* otherwise dumps the fitted estimator and feature_names.json.
train_models ==
    /\ phase = "offline"
    /\ dbReachable
    /\ TrainingRows # {}
    /\ \E est \in FittedEstimators :
          artifact' = [file |-> "estimator", estimator |-> est]
    /\ UNCHANGED <<phase, dbReachable, db, model, request, response, calls, received,
                 bundle, extracted, threads, run>>

\* python app.py: initialize_app, then app.run or sys.exit(1).
Start ==
    /\ phase = "offline"
    /\ LET dbc == connect_to_database(dbReachable)
           ml == load_model(artifact)
       IN  /\ db' = dbc.db
           /\ model' = ml.model
           /\ phase' = IF initialize_app(dbc, ml) THEN "serving" ELSE "exited"
    /\ UNCHANGED <<artifact, dbReachable, request, response, calls, received,
                 bundle, extracted, threads, run>>

PredictBodies ==
    {EmptyJson} \cup {[learner_id |-> id] : id \in Identifiers}

IdLists ==
    UNION {[1..n -> Identifiers] : n \in 0..MaxBatch}

BatchBodies ==
    {EmptyJson} \cup {[learner_ids |-> ids] : ids \in IdLists}

Handle(req, reply) ==
    /\ request' = req
    /\ response' = reply.response
    /\ calls' = reply.calls
    /\ UNCHANGED <<phase, artifact, dbReachable, db, model, received,
                 bundle, extracted, threads, run>>

Idle == phase = "serving" /\ response = NoResponse

HandlePredict ==
    /\ Idle
    /\ \E data \in PredictBodies :
          Handle([endpoint |-> "/predict", json |-> data], predict_risk(model, data))

HandleBatch ==
    /\ Idle
    /\ \E data \in BatchBodies :
          Handle([endpoint |-> "/predict/batch", json |-> data], predict_batch(model, data))

HandleAnalysis ==
    /\ Idle
    /\ \E id \in Identifiers :
          Handle([endpoint |-> "/analytics/learner", json |-> [learner_id |-> id]],
                 get_learner_analysis(model, id))

HandleHealth ==
    /\ Idle
    /\ Handle([endpoint |-> "/health", json |-> EmptyJson], health_check(model, db))

\* The response goes out; the client keeps the assessment of a /predict.
Deliver ==
    /\ response # NoResponse
    /\ received' = IF response.endpoint = "/predict" /\ response.status = 200
                   THEN [risk_score |-> response.body.risk_score,
                         risk_level |-> response.body.risk_level]
                   ELSE received
    /\ request' = NoRequest
    /\ response' = NoResponse
    /\ calls' = NoCalls
    /\ UNCHANGED <<phase, artifact, dbReachable, db, model,
                 bundle, extracted, threads, run>>

Next ==
    \/ train_models
    \/ Start
    \/ HandlePredict
    \/ HandleBatch
    \/ HandleAnalysis
    \/ HandleHealth
    \/ Deliver

Spec == Init /\ [][Next]_vars

(***************************************************************************)
(* Extraction on its own.  A bundle is what extract_learner_features has   *)
(* fetched when line 181 is reached: the learner document and the list of  *)
(* its activities.                                                         *)
(***************************************************************************)
\* doc with key set to v.
Extend(doc, key, v) ==
    [k \in DOMAIN doc \cup {key} |-> IF k = key THEN v ELSE doc[k]]

\* The documents of docs, each also with key set to one of values.
Optional(docs, key, values) ==
    docs \cup {Extend(d, key, v) : d \in docs, v \in values}

\* All lists of at most n elements of S.
ListsUpTo(S, n) == UNION {[1..k -> S] : k \in 0..n}

\* joinDate values as pymongo returns a BSON date: today, yesterday, 40 days
\* ago, and a date 3 days ahead of the server clock.
SampleJoinDates ==
    {Datetime(now), Datetime(now - 1), Datetime(now - 40), Datetime(now + 3)}

\* engagementData sub-documents with numeric fields; the last login is 20
\* days old, a day ahead of the server clock, or exactly 14 days old.
SampleEngagement ==
    {[totalHours |-> Double(Num(Fx(20))), streakDays |-> Double(Num(Fx(3))),
      lastLogin |-> Datetime(now - 20)],
     [totalHours |-> Double(Num(Fx(45))), lastLogin |-> Datetime(now + 1)],
     [lastLogin |-> Datetime(now - 14)]}

\* Elements of learner.enrollments with numeric fields and native dates.
SampleEnrollments ==
    {[progress |-> Double(Num(10)), riskScore |-> Double(Num(80)), status |-> "at-risk",
      courseId |-> "c1", lastActivity |-> Datetime(now - 3)],
     [progress |-> Double(Num(30)), status |-> "active", courseId |-> "c1"],
     [progress |-> Double(Num(100)), status |-> "completed", courseId |-> "c3",
      lastActivity |-> Datetime(now + 2)]}

\* Documents of db.activities with numeric durations and native dates: 7, 8,
\* 30 and 31 days old, stamped 2 days ahead with a negative duration, and
\* without a timestamp.  Durations are 30, 0, absent, 10, -5 and absent.
SampleActivities ==
    {[type |-> "video_watch", timestamp |-> Datetime(now - 7), duration |-> Double(Num(Fx(30)))],
     [type |-> "quiz_attempt", timestamp |-> Datetime(now - 8), duration |-> Double(Num(0))],
     [type |-> "forum_post", timestamp |-> Datetime(now - 30)],
     [type |-> "assignment_submit", timestamp |-> Datetime(now - 31),
      duration |-> Double(Num(Fx(10)))],
     [type |-> "video_watch", timestamp |-> Datetime(now + 2),
      duration |-> Double(Num(0 - Fx(5)))],
     [type |-> "login"]}

TypedLearners ==
    Optional(Optional(Optional({<< >>}, "joinDate", SampleJoinDates),
                      "engagementData", SampleEngagement),
             "enrollments", ListsUpTo(SampleEnrollments, MaxEnrollments))

TypedBundles ==
    {[learner |-> l, activities |-> acts] :
        l \in TypedLearners, acts \in ListsUpTo(SampleActivities, MaxActivities)}

\* The same instant, 10 days ago, as a native datetime and as the strings a
\* document written by another client can hold.
RawTimestamps ==
    {Datetime(now - 10), IsoString(now - 10, "Z"), IsoString(now - 10, "plain"),
     IsoString(now - 10, "bad")}

\* An engagement summary field as a number and as text that is no number.
RawNumbers == {Double(Num(Fx(20))), String("abc")}

RawEngagement ==
    Optional(Optional(Optional({<< >>}, "totalHours", RawNumbers),
                      "streakDays", RawNumbers),
             "lastLogin", RawTimestamps)

RawEnrollments ==
    {<< >>} \cup
    {<<e>> : e \in Optional({[progress |-> Double(Num(50)), status |-> "active"]},
                            "lastActivity", RawTimestamps)}

RawActivities ==
    {<< >>} \cup
    {<<a>> : a \in Optional({[type |-> "video_watch", duration |-> Double(Num(Fx(30)))]},
                            "timestamp", RawTimestamps)}

RawLearners ==
    {Extend(Extend(l, "engagementData", eng), "enrollments", ens) :
        l \in Optional({<< >>}, "joinDate", RawTimestamps),
        eng \in RawEngagement, ens \in RawEnrollments}

RawBundles ==
    {[learner |-> l, activities |-> acts] : l \in RawLearners, acts \in RawActivities}

\* The service is up and idle while a bundle is extracted.
ExtractionOnly ==
    /\ phase = "serving"
    /\ artifact = [file |-> "absent", estimator |-> NoModel]
    /\ dbReachable = TRUE
    /\ db = connect_to_database(TRUE).db
    /\ model = load_model(artifact).model
    /\ request = NoRequest
    /\ response = NoResponse
    /\ calls = NoCalls
    /\ received = NoAssessment
    /\ extracted = NotExtracted
    /\ threads = NoThreads

ExtractInit == ExtractionOnly /\ bundle \in TypedBundles /\ run = NotRunning

RawInit == ExtractionOnly /\ bundle \in RawBundles /\ run = NotRunning

\* extract_learner_features from line 181 on, for the bundle fetched.
Extract ==
    /\ ~extracted.done
    /\ bundle # NoBundle
    /\ extracted' = [done |-> TRUE,
                     features |-> Features(bundle.learner, bundle.activities)]
    /\ UNCHANGED <<phase, artifact, dbReachable, db, model, request, response, calls,
                   received, bundle, threads, run>>

ExtractSpec == ExtractInit /\ [][Extract]_vars

RawSpec == RawInit /\ [][Extract]_vars

(***************************************************************************)
(* Concurrent requests.  app.run serves each request on a thread of its    *)
(* own; a thread reads the globals model and db once for each identifier   *)
(* it processes, and other threads run in between.                         *)
(***************************************************************************)
ConcurrentRequests ==
    {[endpoint |-> "/predict", json |-> data] :
        data \in {EmptyJson, [learner_id |-> IdA], [learner_id |-> IdU]}}
    \cup
    {[endpoint |-> "/predict/batch", json |-> data] :
        data \in {EmptyJson, [learner_ids |-> <<IdA, IdB>>],
                  [learner_ids |-> <<IdAbsent, IdN>>]}}
    \cup
    {[endpoint |-> "/analytics/learner", json |-> [learner_id |-> IdB]],
     [endpoint |-> "/health", json |-> EmptyJson]}

\* Artifacts the service can have started from: none, a corrupt one, one of
\* foreign width, and estimators train_models has saved.
ConcurrentArtifacts ==
    InitialArtifacts \cup
    {[file |-> "estimator", estimator |-> est] :
        est \in {e \in FittedEstimators : ~e.accepts_nan}}

ConcurrentInit ==
    /\ phase = "serving"
    /\ artifact \in ConcurrentArtifacts
    /\ dbReachable = TRUE
    /\ db = connect_to_database(dbReachable).db
    /\ model = load_model(artifact).model
    /\ request = NoRequest
    /\ response = NoResponse
    /\ calls = NoCalls
    /\ received = NoAssessment
    /\ bundle = NoBundle
    /\ extracted = NotExtracted
    /\ threads = NoThreads
    /\ run = NotRunning

\* A handler that rebinds the global model while it answers /health.
model_after_request_rebinding(endpoint, m) ==
    IF endpoint = "/health" THEN NoModel ELSE m

\* The global model after a handler ran.  Only load_model and
\* connect_to_database declare model, db and mongo_client global (app.py:50,
\* 82); the handlers and extract_learner_features assign none of them, so the
\* global is what it was.
model_after_request(endpoint, m) == m

\* A request arrives and gets a thread.
Receive(t) ==
    /\ threads[t].pc = "idle"
    /\ \E req \in ConcurrentRequests :
          threads' = [threads EXCEPT ![t] =
                         [IdleThread EXCEPT !.pc = "running", !.req = req, !.i = 1]]
    /\ UNCHANGED <<phase, artifact, dbReachable, db, model, request, response, calls,
                   received, bundle, extracted, run>>

\* The thread's handler runs up to its next read of the globals: the whole
\* of predict_risk, get_learner_analysis and health_check, and one turn of
\* the loop of predict_batch.
Step(t) ==
    LET th == threads[t]
        data == th.req.json
        done(resp) == [th EXCEPT !.pc = "done", !.resp = resp]
        turn == BatchLoop(model, <<data.learner_ids[th.i]>>, 1, th.results, 0, 0)
    IN  /\ th.pc = "running"
        /\ threads' = [threads EXCEPT ![t] =
              CASE th.req.endpoint = "/predict" ->
                      done(predict_risk(model, data).response)
                [] th.req.endpoint = "/analytics/learner" ->
                      done(get_learner_analysis(model, data.learner_id).response)
                [] th.req.endpoint = "/health" ->
                      done(health_check(model, db).response)
                [] th.req.endpoint = "/predict/batch" /\ "learner_ids" \notin DOMAIN data ->
                      done(predict_batch(model, data).response)
                [] th.req.endpoint = "/predict/batch" /\ "learner_ids" \in DOMAIN data ->
                      IF th.i > Len(data.learner_ids)
                      THEN done(Reply("/predict/batch", 200,
                                      [results |-> th.results], 0, 0).response)
                      ELSE IF turn.raised
                      THEN done(Reply("/predict/batch", 500,
                                      [error |-> ClassifierError], 0, 0).response)
                      ELSE [th EXCEPT !.i = th.i + 1, !.results = turn.results]]
        /\ model' = model_after_request(th.req.endpoint, model)
        /\ UNCHANGED <<phase, artifact, dbReachable, db, request, response, calls,
                       received, bundle, extracted, run>>

\* The response goes out and the thread is free again.
Send(t) ==
    /\ threads[t].pc = "done"
    /\ threads' = [threads EXCEPT ![t] = IdleThread]
    /\ UNCHANGED <<phase, artifact, dbReachable, db, model, request, response, calls,
                   received, bundle, extracted, run>>

ConcurrentNext ==
    \E t \in 1..MaxThreads : Receive(t) \/ Step(t) \/ Send(t)

ConcurrentSpec == ConcurrentInit /\ [][ConcurrentNext]_vars

(***************************************************************************)
(* One extraction step by step.  The wall clock is outside the program and *)
(* moves on while extract_learner_features runs; the function reads it at  *)
(* line 181 into the local `now` and computes every day count from that    *)
(* local.  The clock is counted in days, as the timestamps are.            *)
(***************************************************************************)
\* Largest number of days the wall clock moves on during one extraction.
MaxTicks == 2

\* Enrollments and activities with and without a date.
ClockEnrollments ==
    {[progress |-> Double(Num(10)), status |-> "at-risk", courseId |-> "c1",
      lastActivity |-> Datetime(now - 3)],
     [progress |-> Double(Num(30)), status |-> "active", courseId |-> "c1"]}

ClockActivities ==
    {[type |-> "video_watch", timestamp |-> Datetime(now - 7), duration |-> Double(Num(Fx(30)))],
     [type |-> "login"]}

ClockLearners ==
    Optional(Optional(Optional({<< >>}, "joinDate", {Datetime(now - 40), Datetime(now + 3)}),
                      "engagementData", {[lastLogin |-> Datetime(now - 20)]}),
             "enrollments", ListsUpTo(ClockEnrollments, MaxEnrollments))

ClockBundles ==
    {[learner |-> l, activities |-> acts] :
        l \in ClockLearners, acts \in ListsUpTo(ClockActivities, MaxActivities)}

ClockInit ==
    /\ ExtractionOnly
    /\ bundle \in ClockBundles
    /\ run = [NotRunning EXCEPT !.pc = "start"]

\* An instant that is read from the wall clock again wherever it is used.
instant_reread(r) == r.clock

\* The instant a relative-time computation of the run uses: the local `now`
\* (app.py:184-285).
instant(r) == r.now

\* (now - x).days for a native datetime x.
DaysBetween(at, x) == at - x.day

\* The wall clock moves on.
Tick ==
    /\ run.pc \notin {"idle", "done"}
    /\ run.clock < now + MaxTicks
    /\ run' = [run EXCEPT !.clock = @ + 1]
    /\ UNCHANGED <<phase, artifact, dbReachable, db, model, request, response, calls,
                   received, bundle, extracted, threads>>

\* now = datetime.utcnow() (app.py:181)
ReadNow ==
    /\ run.pc = "start"
    /\ run' = [run EXCEPT !.now = run.clock, !.reads = @ + 1, !.pc = "join"]
    /\ UNCHANGED <<phase, artifact, dbReachable, db, model, request, response, calls,
                   received, bundle, extracted, threads>>

\* days_since_join (app.py:184-190)
JoinDays ==
    /\ run.pc = "join"
    /\ LET join_date == Get(bundle.learner, "joinDate", Datetime(instant(run)))
       IN  run' = [run EXCEPT
                      !.days_since_join = Max(DaysBetween(instant(run), join_date), 0),
                      !.pc = "login"]
    /\ UNCHANGED <<phase, artifact, dbReachable, db, model, request, response, calls,
                   received, bundle, extracted, threads>>

\* days_since_last_login (app.py:201-207)
LoginDays ==
    /\ run.pc = "login"
    /\ LET engagement == Get(bundle.learner, "engagementData", << >>)
           last_login == Get(engagement, "lastLogin", Datetime(instant(run)))
       IN  run' = [run EXCEPT
                      !.days_since_last_login = Max(DaysBetween(instant(run), last_login), 0),
                      !.pc = "loops"]
    /\ UNCHANGED <<phase, artifact, dbReachable, db, model, request, response, calls,
                   received, bundle, extracted, threads>>

\* One pass of the loop over the enrollments (app.py:241-249).
EnrollmentDays ==
    /\ run.pc = "loops"
    /\ Len(run.course_days) < Len(Get(bundle.learner, "enrollments", << >>))
    /\ LET enrollment == Get(bundle.learner, "enrollments", << >>)[Len(run.course_days) + 1]
           last_activity == Get(enrollment, "lastActivity", Datetime(instant(run)))
       IN  run' = [run EXCEPT
                      !.course_days = Append(@, DaysBetween(instant(run), last_activity))]
    /\ UNCHANGED <<phase, artifact, dbReachable, db, model, request, response, calls,
                   received, bundle, extracted, threads>>

\* One pass of the loop over the activities (app.py:277-285), which follows
\* the loop over the enrollments.
ActivityDays ==
    /\ run.pc = "loops"
    /\ Len(run.course_days) = Len(Get(bundle.learner, "enrollments", << >>))
    /\ Len(run.days_ago) < Len(bundle.activities)
    /\ LET activity == bundle.activities[Len(run.days_ago) + 1]
           timestamp == Get(activity, "timestamp", Datetime(instant(run)))
       IN  run' = [run EXCEPT
                      !.days_ago = Append(@, DaysBetween(instant(run), timestamp))]
    /\ UNCHANGED <<phase, artifact, dbReachable, db, model, request, response, calls,
                   received, bundle, extracted, threads>>

\* return features (app.py:368)
Return ==
    /\ run.pc = "loops"
    /\ Len(run.course_days) = Len(Get(bundle.learner, "enrollments", << >>))
    /\ Len(run.days_ago) = Len(bundle.activities)
    /\ run' = [run EXCEPT !.pc = "done"]
    /\ UNCHANGED <<phase, artifact, dbReachable, db, model, request, response, calls,
                   received, bundle, extracted, threads>>

ClockNext ==
    \/ Tick
    \/ ReadNow
    \/ JoinDays
    \/ LoginDays
    \/ EnrollmentDays
    \/ ActivityDays
    \/ Return

ClockSpec == ClockInit /\ [][ClockNext]_vars

(***************************************************************************)
(* The extractor of the training script, for one learner                   *)
(* (train_comprehensive_model.py:77-299).  Where a line of it has the same *)
(* text as the line of app.py, the operator of app.py is used.             *)
(***************************************************************************)
\* (now - x).days of the training script (train:91-92, 103-106, 140-144,
\* 174-178): fromisoformat stands in no try block, so a string that is not
\* ISO-8601 raises.
DaysSince_training(x) ==
    IF x.repr = "string" /\ x.form = "bad"
    THEN [raised |-> TRUE, days |-> 0]
    ELSE DaysSince(x)

\* The else branch at train:154-159.
EnrollmentDefaults_training ==
    [raised |-> FALSE,
     avg_progress |-> Num(0), max_progress |-> Num(0), min_progress |-> Num(0),
     progress_std |-> Num(0),
     avg_risk_score |-> Num(0), max_risk_score |-> Num(0),
     completed_courses |-> 0, active_courses |-> 0, at_risk_courses |-> 0,
     beginner_courses |-> 0, intermediate_courses |-> 0, advanced_courses |-> 0,
     avg_days_since_course_activity |-> Num(0),
     max_days_since_course_activity |-> Num(0)]

\* The branch total_courses > 0 (train:112-152): riskScore defaults to 0,
\* np.std is taken of any list, and course_ids keeps a missing courseId,
\* which matches no course.
EnrollmentStatistics_training(enrollments) ==
    LET n == Len(enrollments)
        progress == [i \in 1..n |-> float(Get(enrollments[i], "progress", Double(Num(0))))]
        risk == [i \in 1..n |-> float(Get(enrollments[i], "riskScore", Double(Num(0))))]
        progress_values == [i \in 1..n |-> progress[i].val]
        risk_scores == [i \in 1..n |-> risk[i].val]
        status(i) == Get(enrollments[i], "status", "None")
        course_ids == [i \in 1..n |-> Get(enrollments[i], "courseId", "None")]
        courses_info == courses_find(course_ids)
        since == [i \in 1..n |->
                     DaysSince_training(Get(enrollments[i], "lastActivity", utcnow))]
        last_activities == [i \in 1..n |-> Num(Fx(since[i].days))]
    IN  [raised |-> \/ n = 0
                    \/ \E i \in 1..n : progress[i].raised \/ risk[i].raised \/ since[i].raised,
         avg_progress |-> np_mean(progress_values),
         max_progress |-> np_max(progress_values),
         min_progress |-> np_min(progress_values),
         progress_std |-> np_std(progress_values),
         avg_risk_score |-> np_mean(risk_scores),
         max_risk_score |-> np_max(risk_scores),
         completed_courses |-> Cardinality({i \in 1..n : status(i) = "completed"}),
         active_courses |-> Cardinality({i \in 1..n : status(i) = "active"}),
         at_risk_courses |-> Cardinality({i \in 1..n : status(i) = "at-risk"}),
         beginner_courses |->
             Cardinality({c \in courses_info : Courses[c].difficulty = "beginner"}),
         intermediate_courses |->
             Cardinality({c \in courses_info : Courses[c].difficulty = "intermediate"}),
         advanced_courses |->
             Cardinality({c \in courses_info : Courses[c].difficulty = "advanced"}),
         avg_days_since_course_activity |-> np_mean(last_activities),
         max_days_since_course_activity |-> np_max(last_activities)]

\* === COURSE ENROLLMENT FEATURES === (train:108-159)
EnrollmentAggregates_training(enrollments) ==
    IF Len(enrollments) > 0
    THEN EnrollmentStatistics_training(enrollments)
    ELSE EnrollmentDefaults_training

\* train:198
activity_rate_daily_training(total_activities, days_since_join) ==
    IF days_since_join > 0
    THEN Div(Num(Fx(total_activities)), Max(days_since_join, 1))
    ELSE NoDiv(Num(0))

\* train:208
engagement_consistency_training(streak_days, days_since_join) ==
    IF days_since_join > 0
    THEN Div(streak_days, Max(days_since_join, 1))
    ELSE NoDiv(Num(0))

\* train:211
hours_per_day_training(total_hours, days_since_join) ==
    IF days_since_join > 0
    THEN Div(total_hours, Max(days_since_join, 1))
    ELSE NoDiv(Num(0))

\* The branch `if activities` (train:168-199); lines 170-196 and 199 have
\* the text of app.py:267-297 and 300.
ActivityStatistics_training(activities, days_since_join) ==
    LET n == Len(activities)
        type(i) == Get(activities[i], "type", "None")
        since == [i \in 1..n |->
                     DaysSince_training(Get(activities[i], "timestamp", utcnow))]
        days_ago(i) == since[i].days
        recent_activities_7d == Cardinality({i \in 1..n : WithinDays(days_ago(i), 7)})
        recent_activities_30d == Cardinality({i \in 1..n : WithinDays(days_ago(i), 30)})
        duration == [i \in 1..n |-> Get(activities[i], "duration", Double(Num(0)))]
        positive == SelectSeq(duration, duration_positive)
        activity_durations == [i \in 1..Len(positive) |-> positive[i].num]
        rate == activity_rate_daily_training(n, days_since_join)
        trend == recent_activity_trend(recent_activities_7d, recent_activities_30d)
    IN  [raised |-> \/ \E i \in 1..n : since[i].raised \/ duration[i].type # "double"
                    \/ rate.raised \/ trend.raised,
         video_activities |-> Cardinality({i \in 1..n : type(i) = "video_watch"}),
         quiz_activities |-> Cardinality({i \in 1..n : type(i) = "quiz_attempt"}),
         forum_activities |-> Cardinality({i \in 1..n : type(i) = "forum_post"}),
         assignment_activities |-> Cardinality({i \in 1..n : type(i) = "assignment_submit"}),
         recent_activities_7d |-> recent_activities_7d,
         recent_activities_30d |-> recent_activities_30d,
         avg_activity_duration |->
             IF Len(activity_durations) > 0 THEN np_mean(activity_durations) ELSE Num(0),
         total_activity_time |->
             IF Len(activity_durations) > 0 THEN Num(SumV(activity_durations, 1)) ELSE Num(0),
         max_activity_duration |->
             IF Len(activity_durations) > 0 THEN np_max(activity_durations) ELSE Num(0),
         activity_rate_daily |-> rate.val,
         recent_activity_trend |-> trend.val]

\* === ACTIVITY PATTERN FEATURES === (train:161-205); the else branch at
\* 201-205 has the values of app.py:302-307.
ActivityAggregates_training(activities, days_since_join) ==
    IF Len(activities) > 0
    THEN ActivityStatistics_training(activities, days_since_join)
    ELSE ActivityDefaults

\* The named fields of the features dict (train:231-295).  progress_rate,
\* course_load and the four risk indicators (train:209-210, 215-218) have the
\* text of app.py:311-312 and 316-319; engagement_consistency and
\* hours_per_day (train:208, 211) do not.
FeatureRecord_training(dates_raised, days_since_join, days_since_last_login, e, total_courses, c, total_activities, a) ==
    LET consistency == engagement_consistency_training(e.streak_days, days_since_join)
        hours == hours_per_day_training(e.total_hours, days_since_join)
    IN  [FeatureRecord(dates_raised, days_since_join, days_since_last_login, e,
                       total_courses, c, total_activities, a)
         EXCEPT !.engagement_consistency = consistency.val,
                !.hours_per_day = hours.val,
                !.raised = \/ dates_raised \/ e.raised \/ c.raised \/ a.raised
                           \/ progress_rate(c.avg_progress, days_since_join).raised
                           \/ course_load(total_courses, days_since_join).raised
                           \/ high_risk_courses_ratio(c.at_risk_courses, total_courses).raised
                           \/ consistency.raised \/ hours.raised]

\* The blocks in the order of the script: the two day counts are clamped at
\* 0 (train:92, 106), then the enrollment and the activity block.
FromBlocks_training(join, login, e, enrollments, activities) ==
    FeatureRecord_training(join.raised \/ login.raised, Max(join.days, 0), Max(login.days, 0),
                           e, Len(enrollments), EnrollmentAggregates_training(enrollments),
                           Len(activities),
                           ActivityAggregates_training(activities, Max(join.days, 0)))

\* One pass of the loop of extract_comprehensive_features (train:77-302) for
\* a learner whose join date is the joinDate given: the named features in
\* the order of FeatureNames, or NoFeatures when the except clause skipped
\* the learner.
extract_comprehensive_features(learner, activities) ==
    ListOrNone(
        FromBlocks_training(
            DaysSince_training(Get(learner, "joinDate", utcnow)),
            DaysSince_training(Get(Get(learner, "engagementData", << >>), "lastLogin", utcnow)),
            EngagementSummary(Get(learner, "engagementData", << >>)),
            Get(learner, "enrollments", << >>),
            activities))

\* Both extractors are run on the bundle.
ExtractBoth ==
    /\ ~extracted.done
    /\ bundle # NoBundle
    /\ extracted' = [done |-> TRUE,
                     features |-> Features(bundle.learner, bundle.activities),
                     row |-> extract_comprehensive_features(bundle.learner,
                                                            bundle.activities)]
    /\ UNCHANGED <<phase, artifact, dbReachable, db, model, request, response, calls,
                   received, bundle, threads, run>>

BothSpec == ExtractInit /\ [][ExtractBoth]_vars

(***************************************************************************)
(* Properties.                                                             *)
(***************************************************************************)
\* The request just handled is a batch request that carries a list.
BatchHandled ==
    /\ request.endpoint = "/predict/batch"
    /\ "learner_ids" \in DOMAIN request.json

\* The request just handled is a /predict request that carries an identifier.
PredictHandled ==
    /\ request.endpoint = "/predict"
    /\ "learner_id" \in DOMAIN request.json

WellFormed(id) == id.len = 24 /\ id.hex

\* C1: in batch inference a failure while processing one identifier, at any
\* stage (parsing, fetch, extraction, classifier call), never aborts the
\* batch: the response is the result list and every identifier of the
\* request has an entry in it.
C1_BatchNeverAborts ==
    BatchHandled =>
        /\ response.status = 200
        /\ "results" \in DOMAIN response.body
        /\ \A i \in 1..Len(request.json.learner_ids) :
              \E j \in 1..Len(response.body.results) :
                 response.body.results[j].learner_id = request.json.learner_ids[i]

\* C2: a batch request with N identifiers is answered by a result list of
\* exactly N entries in input order, entry i carrying identifier i: an
\* assessment (risk_score and risk_level) when the learner exists, an error
\* marker when it does not.
C2_BatchEntriesInOrder ==
    BatchHandled =>
        LET ids == request.json.learner_ids
        IN  /\ response.status = 200
            /\ Len(response.body.results) = Len(ids)
            /\ \A i \in 1..Len(ids) :
                 LET entry == response.body.results[i]
                 IN  /\ entry.learner_id = ids[i]
                     /\ IF WellFormed(ids[i]) /\ ids[i].text \in DOMAIN Learners
                        THEN {"risk_score", "risk_level"} \subseteq DOMAIN entry
                        ELSE "error" \in DOMAIN entry /\ "risk_score" \notin DOMAIN entry

\* The assessments (risk_score, risk_level) a response carries.
Assessments(resp) ==
    CASE resp.status = 200 /\ resp.endpoint \in {"/predict", "/analytics/learner"} ->
            {[risk_score |-> resp.body.risk_score, risk_level |-> resp.body.risk_level]}
      [] resp.status = 200 /\ resp.endpoint = "/predict/batch" ->
            {[risk_score |-> resp.body.results[i].risk_score,
              risk_level |-> resp.body.results[i].risk_level] :
                i \in {j \in 1..Len(resp.body.results) :
                          "risk_score" \in DOMAIN resp.body.results[j]}}
      [] OTHER -> {}

\* The assessments in sight: of the response being sent and of the last
\* /predict response a client received.
Visible ==
    Assessments(response) \cup (IF received = NoAssessment THEN {} ELSE {received})

\* C3: every endpoint that reports a risk level uses the same thresholds:
\* high iff p > 0.7, medium iff 0.3 < p <= 0.7, low iff p <= 0.3; so one p
\* never gets two levels, whichever endpoints reported it.
C3_OneThresholdSet ==
    /\ \A a \in Visible :
          /\ (a.risk_level = "high") <=> (a.risk_score > 7000)
          /\ (a.risk_level = "medium") <=> (a.risk_score > 3000 /\ a.risk_score <= 7000)
          /\ (a.risk_level = "low") <=> (a.risk_score <= 3000)
    /\ \A a, b \in Visible :
          a.risk_score = b.risk_score => a.risk_level = b.risk_level

\* C3 witness: /predict/batch or /analytics/learner reports the probability
\* that /predict reported before, strictly between 0.3 and 0.4.
C3_Witness ==
    /\ response.endpoint \in {"/predict/batch", "/analytics/learner"}
    /\ received # NoAssessment
    /\ received.risk_score > 3000 /\ received.risk_score < 4000
    /\ \E a \in Assessments(response) : a.risk_score = received.risk_score

Severity(level) ==
    CASE level = "low" -> 0 [] level = "medium" -> 1 [] level = "high" -> 2

\* C4: bucketing is monotonic: of two probabilities p1 < p2 the level of p1
\* is never more severe than the level of p2.
C4_Monotonic ==
    \A a, b \in Visible :
        a.risk_score < b.risk_score =>
            Severity(a.risk_level) <= Severity(b.risk_level)

\* C4 witness: /predict answers with a higher probability and a more severe
\* level than the /predict answer received before.
C4_Witness ==
    /\ response.endpoint = "/predict" /\ response.status = 200
    /\ received # NoAssessment
    /\ received.risk_score < response.body.risk_score
    /\ Severity(received.risk_level) < Severity(response.body.risk_level)

\* C5: every successful /predict result carries intervention_needed, true
\* exactly when risk_level is medium or high.
C5_InterventionFlag ==
    (PredictHandled /\ response.status = 200) =>
        /\ "intervention_needed" \in DOMAIN response.body
        /\ response.body.intervention_needed
              <=> (response.body.risk_level \in {"medium", "high"})

NotFoundBody == [error |-> "Learner not found or could not extract features"]

C7_MissingLearner404 ==
    (PredictHandled /\ request.json.learner_id \in {IdAbsent, IdU}) =>
        /\ response.status = 404
        /\ calls.find_one = 1
        /\ calls.predict_proba = 0
        /\ "risk_score" \notin DOMAIN response.body
        /\ "risk_level" \notin DOMAIN response.body

\* C7 witness: /predict has answered the identifier of the learner whose
\* totalHours is not a number.
C7_Witness ==
    /\ PredictHandled
    /\ request.json.learner_id = IdU
    /\ response.status = 404
    /\ calls.find_one = 1

\* C8: when load_model has put MockModel in place of a model, callers can
\* tell: the health response of the service differs from the health response
\* of every service that loaded a fitted estimator, and a successful /predict
\* result has another set of fields than theirs.
C8_StubObservable ==
    (model.kind = "MockModel" /\ response.status = 200) =>
        \A est \in FittedEstimators :
            CASE request.endpoint = "/health" ->
                    health_check(est, db).response # response
              [] request.endpoint = "/predict" ->
                    \/ predict_risk(est, request.json).response.status # 200
                    \/ DOMAIN predict_risk(est, request.json).response.body
                          # DOMAIN response.body
              [] OTHER -> TRUE

\* C9: a loaded estimator whose n_features_in_ differs from the number of
\* features the extractor produces makes start-up fail: the service never
\* serves with it, and no request is answered 500 because of the width.
C9_WidthCheckedAtStartup ==
    (model.kind = "sklearn" /\ model.n_features_in_ # Len(FeatureNames)) =>
        /\ phase # "serving"
        /\ response.status # 500

\* C10: the field order of the vector built at inference is, position by
\* position, the order of the columns the loaded estimator was fitted on.
C10_SameFieldOrder ==
    (phase = "serving" /\ model.kind = "sklearn" /\ model.feature_names # << >>) =>
        /\ Len(model.feature_names) = Len(FeatureNames)
        /\ \A i \in 1..Len(FeatureNames) : FeatureNames[i] = model.feature_names[i]

(***************************************************************************)
(* Properties of the extraction.                                           *)
(***************************************************************************)
\* The extraction of bundle has run and returned a vector.
Returned == extracted.done /\ extracted.features # NoFeatures

FeatureIndex(name) == CHOOSE i \in 1..Len(FeatureNames) : FeatureNames[i] = name

\* The field called name of the vector returned.
F(name) == extracted.features[FeatureIndex(name)]

\* A count or a day number carried by the vector, as an integer.
N(name) == F(name).v \div 100

ZeroEnrollments == Len(Get(bundle.learner, "enrollments", << >>)) = 0
ZeroActivities == Len(bundle.activities) = 0

ZeroWithoutEnrollments ==
    {"avg_progress", "max_progress", "min_progress", "progress_std",
     "completed_courses", "active_courses", "at_risk_courses",
     "beginner_courses", "intermediate_courses", "advanced_courses",
     "avg_days_since_course_activity", "max_days_since_course_activity"}

\* C11: for every learner with zero enrollments (and fields of their
\* documented types), extraction succeeds and every enrollment aggregate has
\* its default: the progress statistics, the status and difficulty counts
\* and the days-since-course-activity statistics are 0, avg_risk_score and
\* max_risk_score are both the neutral 0.3, and none of them is NaN.
C11_NoEnrollmentDefaults ==
    (extracted.done /\ ZeroEnrollments) =>
        /\ extracted.features # NoFeatures
        /\ \A name \in ZeroWithoutEnrollments : F(name) = Num(0)
        /\ F("avg_risk_score") = Num(30)
        /\ F("max_risk_score") = Num(30)
        /\ N("total_courses") = 0

C11_Witness ==
    /\ Returned
    /\ ZeroEnrollments
    /\ ~ZeroActivities
    /\ N("days_since_join") > 0

ZeroWithoutActivities ==
    {"video_activities", "quiz_activities", "forum_activities",
     "assignment_activities", "recent_activities_7d", "recent_activities_30d",
     "avg_activity_duration", "total_activity_time", "max_activity_duration",
     "recent_activity_trend", "total_activities", "activity_rate_daily"}

\* C12: for every learner with zero activities, whatever days_since_join is,
\* every activity aggregate of the vector (the four per-type counts, the two
\* window counts, the three duration statistics, recent_activity_trend and
\* total_activities) is 0, and so is activity_rate_daily.
C12_NoActivityDefaults ==
    (Returned /\ ZeroActivities) =>
        \A name \in ZeroWithoutActivities : F(name) = Num(0)

C12_Witness ==
    /\ Returned
    /\ ZeroActivities
    /\ ~ZeroEnrollments
    /\ N("days_since_join") > 1

\* C13: recent_activity_trend is always a number that is not negative, and
\* it is exactly 0 whenever recent_activities_30d is 0.
C13_TrendNonNegative ==
    extracted.done =>
        /\ extracted.features # NoFeatures
        /\ ~F("recent_activity_trend").nan
        /\ F("recent_activity_trend").v >= 0
        /\ (N("recent_activities_30d") = 0 => F("recent_activity_trend") = Num(0))

\* A learner all of whose activities are older than 30 days.
C13_Witness ==
    /\ Returned
    /\ ~ZeroActivities
    /\ N("recent_activities_30d") = 0
    /\ F("recent_activity_trend") = Num(0)

RatioFeatures ==
    {"activity_rate_daily", "recent_activity_trend", "engagement_consistency",
     "progress_rate", "course_load", "hours_per_day", "high_risk_courses_ratio"}

\* C14: no derived ratio divides by zero: for every input, the ones with
\* days_since_join = 0, total_courses = 0 or recent_activities_30d = 0
\* included, extraction returns a vector and each of the seven ratio
\* features in it is a number.
C14_NoDivisionByZero ==
    extracted.done =>
        /\ extracted.features # NoFeatures
        /\ \A name \in RatioFeatures : ~F(name).nan

\* A learner who joined today, has no course and only old activities.
C14_Witness ==
    /\ Returned
    /\ N("days_since_join") = 0
    /\ N("total_courses") = 0
    /\ N("total_activities") > 0
    /\ N("recent_activities_30d") = 0
    /\ F("total_hours").v > 0

\* A stored timestamp is a string with a trailing Z.
IsZ(x) == x.repr = "string" /\ x.form = "Z"

\* The timestamps of the bundle: join date, last login, the enrollments'
\* last activity and the activities' timestamp.
Timestamps ==
    LET l == bundle.learner
        eng == Get(l, "engagementData", << >>)
        ens == Get(l, "enrollments", << >>)
    IN  {Get(l, "joinDate", utcnow), Get(eng, "lastLogin", utcnow)}
        \cup {Get(ens[i], "lastActivity", utcnow) : i \in 1..Len(ens)}
        \cup {Get(bundle.activities[i], "timestamp", utcnow) : i \in 1..Len(bundle.activities)}

\* The stored timestamp as the native datetime of the same instant.
Native(x) == IF IsZ(x) THEN Datetime(x.day) ELSE x

\* The bundle with every Z string replaced by the native datetime of the
\* same instant.
NativeLearner ==
    LET l == bundle.learner
        eng == Get(l, "engagementData", << >>)
        ens == Get(l, "enrollments", << >>)
        withJoin == IF "joinDate" \in DOMAIN l
                    THEN Extend(l, "joinDate", Native(l.joinDate)) ELSE l
        nativeEng == IF "lastLogin" \in DOMAIN eng
                     THEN Extend(eng, "lastLogin", Native(eng.lastLogin)) ELSE eng
        nativeEns == [i \in 1..Len(ens) |->
                        IF "lastActivity" \in DOMAIN ens[i]
                        THEN Extend(ens[i], "lastActivity", Native(ens[i].lastActivity))
                        ELSE ens[i]]
    IN  Extend(Extend(withJoin, "engagementData", nativeEng), "enrollments", nativeEns)

NativeActivities ==
    [i \in 1..Len(bundle.activities) |->
        IF "timestamp" \in DOMAIN bundle.activities[i]
        THEN Extend(bundle.activities[i], "timestamp", Native(bundle.activities[i].timestamp))
        ELSE bundle.activities[i]]

\* The engagement summary of the bundle converts without raising.
NumericSummary ==
    ~EngagementSummary(Get(bundle.learner, "engagementData", << >>)).raised

\* C16: a learner whose timestamps are stored as ISO-8601 strings with a
\* trailing Z is extracted as the same learner with these instants stored
\* as native datetimes: extraction returns a vector, the same one.
C16_ZStringsAsNative ==
    (extracted.done /\ NumericSummary /\ \E x \in Timestamps : IsZ(x)) =>
        /\ extracted.features # NoFeatures
        /\ extracted.features = Features(NativeLearner, NativeActivities)

\* A stored engagement field is absent or holds text that is no number.
Unusable(field) ==
    LET eng == Get(bundle.learner, "engagementData", << >>)
    IN  field \notin DOMAIN eng \/ eng[field].type = "string"

SummaryFeature(field) ==
    CASE field = "totalHours" -> "total_hours"
      [] field = "streakDays" -> "streak_days"
      [] field = "avgSessionTime" -> "avg_session_time"
      [] field = "completionRate" -> "completion_rate"
      [] field = "weeklyGoalHours" -> "weekly_goal_hours"

\* No timestamp of the bundle is a string.
NativeTimestamps == \A x \in Timestamps : x.repr = "datetime"

\* C18: an engagement summary field that is absent or holds a non-numeric
\* value is no error: extraction returns a vector and the field's feature
\* in it is 0.
C18_SummaryDefaults ==
    (extracted.done /\ NativeTimestamps) =>
        /\ extracted.features # NoFeatures
        /\ \A i \in 1..Len(EngagementFields) :
              Unusable(EngagementFields[i]) => F(SummaryFeature(EngagementFields[i])) = Num(0)

\* The quotient of the stated formulas: x / max(days_since_join, 1).
PerDay(x) == FDiv(x, Max(N("days_since_join"), 1))

\* total_courses / max(days_since_join / 30, 1)
PerMonth(x) == FDiv(Num(x.v * 30), Max(N("days_since_join"), 30))

\* C19 as stated: for every input, days_since_join = 0 included, each of
\* the four derived ratios equals its formula, so that progress_rate is
\* avg_progress and course_load is total_courses for a learner who joined
\* today.
C19_Claimed_Formulas ==
    Returned =>
        /\ F("engagement_consistency") = PerDay(F("streak_days"))
        /\ F("progress_rate") = PerDay(F("avg_progress"))
        /\ F("course_load") = PerMonth(F("total_courses"))
        /\ F("hours_per_day") = PerDay(F("total_hours"))

\* C19: engagement_consistency = streak_days / max(days_since_join, 1) and
\* hours_per_day = total_hours / max(days_since_join, 1) for every input;
\* progress_rate = avg_progress / max(days_since_join, 1) and course_load =
\* total_courses / max(days_since_join / 30, 1) when days_since_join > 0,
\* and both are 0 when days_since_join = 0.
C19_Formulas ==
    Returned =>
        /\ F("engagement_consistency") = PerDay(F("streak_days"))
        /\ F("hours_per_day") = PerDay(F("total_hours"))
        /\ N("days_since_join") > 0 =>
              /\ F("progress_rate") = PerDay(F("avg_progress"))
              /\ F("course_load") = PerMonth(F("total_courses"))
        /\ N("days_since_join") = 0 =>
              /\ F("progress_rate") = Num(0)
              /\ F("course_load") = Num(0)

\* A learner who joined today and has made progress in a course.
C19_Witness ==
    /\ Returned
    /\ N("days_since_join") = 0
    /\ F("avg_progress").v > 0
    /\ F("streak_days").v > 0
    /\ F("progress_rate") = Num(0)
    /\ F("engagement_consistency") = F("streak_days")

\* The whole-day age of activity i of the bundle: 0 when it carries no
\* timestamp, negative when it is stamped later than now.
Age(i) == now - Get(bundle.activities[i], "timestamp", utcnow).day

\* The events between lo and hi days old, and the events at most hi days old.
EventsWithin(lo, hi) ==
    Cardinality({i \in 1..Len(bundle.activities) : lo <= Age(i) /\ Age(i) <= hi})

EventsUpTo(hi) ==
    Cardinality({i \in 1..Len(bundle.activities) : Age(i) <= hi})

\* C20 as stated: recent_activities_7d and recent_activities_30d count the
\* events of the trailing window, those with 0 <= days_ago <= N, and no
\* event outside it.
C20_Claimed_TrailingWindow ==
    Returned =>
        /\ N("recent_activities_7d") = EventsWithin(0, 7)
        /\ N("recent_activities_30d") = EventsWithin(0, 30)

\* C20: recent_activities_7d (30d) is the number of events with
\* days_ago <= 7 (30): the boundary day is counted, an event of N + 1 days
\* is not, and an event stamped later than now, whose days_ago is negative,
\* is counted in both.
C20_Window ==
    Returned =>
        /\ N("recent_activities_7d") = EventsUpTo(7)
        /\ N("recent_activities_30d") = EventsUpTo(30)

\* Events exactly 7 and exactly 8 days old, or exactly 30 and 31.
C20_Witness ==
    /\ Returned
    /\ \/ {Age(i) : i \in 1..Len(bundle.activities)} = {7, 8}
       \/ {Age(i) : i \in 1..Len(bundle.activities)} = {30, 31}

(***************************************************************************)
(* Properties of concurrent requests.                                      *)
(***************************************************************************)
\* What the handler of req answers when it runs alone on the globals m, d.
Alone(m, d, req) ==
    CASE req.endpoint = "/predict" -> predict_risk(m, req.json).response
      [] req.endpoint = "/predict/batch" -> predict_batch(m, req.json).response
      [] req.endpoint = "/analytics/learner" ->
            get_learner_analysis(m, req.json.learner_id).response
      [] req.endpoint = "/health" -> health_check(m, d).response

\* C17: once initialization is over, whatever the interleaving of the
\* threads serving single, batch, analysis and health requests, the globals
\* model and db stay what initialization made them, and the response of
\* each request is the one its handler gives when it runs alone.
C17_ReadOnlyGlobals ==
    /\ model = load_model(artifact).model
    /\ db = connect_to_database(dbReachable).db
    /\ \A t \in 1..MaxThreads :
          threads[t].pc = "done" =>
              threads[t].resp = Alone(load_model(artifact).model,
                                      connect_to_database(dbReachable).db,
                                      threads[t].req)

\* A batch is half way through its list while another thread has answered
\* a health request.
C17_Witness ==
    \E t, u \in 1..MaxThreads :
        /\ threads[t].req.endpoint = "/predict/batch"
        /\ threads[t].pc = "running"
        /\ threads[t].i = 2
        /\ threads[u].req.endpoint = "/health"
        /\ threads[u].pc = "done"


(***************************************************************************)
(* Durations of activities (app.py:263-297).                               *)
(***************************************************************************)
\* The duration stored with event i of the bundle, 0 when there is none.
StoredDuration(i) == Get(bundle.activities[i], "duration", Double(Num(0))).num

\* The durations above 0, in the order of the events.
PositiveDurations ==
    SelectSeq([i \in 1..Len(bundle.activities) |-> StoredDuration(i)],
              LAMBDA x : x.v > 0)

\* The events of one type.
EventsOfType(type) ==
    {i \in 1..Len(bundle.activities) : Get(bundle.activities[i], "type", "None") = type}

\* C21: an activity whose duration is missing, zero or negative stays out of
\* avg_activity_duration, total_activity_time and max_activity_duration, which
\* are the mean, the sum and the maximum of the positive durations and 0 when
\* there is none, while every activity counts in total_activities, in the
\* count of its type and in the window counts.
C21_PositiveDurationsOnly ==
    Returned =>
        /\ F("avg_activity_duration") =
               IF Len(PositiveDurations) > 0 THEN np_mean(PositiveDurations) ELSE Num(0)
        /\ F("total_activity_time") = Num(SumV(PositiveDurations, 1))
        /\ F("max_activity_duration") =
               IF Len(PositiveDurations) > 0 THEN np_max(PositiveDurations) ELSE Num(0)
        /\ N("total_activities") = Len(bundle.activities)
        /\ N("video_activities") = Cardinality(EventsOfType("video_watch"))
        /\ N("quiz_activities") = Cardinality(EventsOfType("quiz_attempt"))
        /\ N("forum_activities") = Cardinality(EventsOfType("forum_post"))
        /\ N("assignment_activities") = Cardinality(EventsOfType("assignment_submit"))
        /\ N("recent_activities_7d") = EventsUpTo(7)
        /\ N("recent_activities_30d") = EventsUpTo(30)

\* A 30-minute video and a quiz attempt of duration 0, 7 and 8 days old: the
\* three statistics are those of the video alone, the quiz is counted.
C21_Witness ==
    /\ Returned
    /\ Len(bundle.activities) = 2
    /\ StoredDuration(1) = Num(Fx(30)) /\ StoredDuration(2) = Num(0)
    /\ F("avg_activity_duration") = Num(Fx(30))
    /\ F("total_activity_time") = Num(Fx(30))
    /\ F("max_activity_duration") = Num(Fx(30))
    /\ N("total_activities") = 2 /\ N("quiz_activities") = 1
    /\ N("recent_activities_30d") = 2

(***************************************************************************)
(* Difficulty counts (app.py:231-237).                                     *)
(***************************************************************************)
\* The enrollments of the bundle whose courseId names a course of the given
\* difficulty.
EnrollmentsOfDifficulty(difficulty) ==
    LET ens == Get(bundle.learner, "enrollments", << >>)
    IN  {i \in 1..Len(ens) :
            /\ Get(ens[i], "courseId", "None") \in DOMAIN Courses
            /\ Courses[Get(ens[i], "courseId", "None")].difficulty = difficulty}

\* C22: beginner_courses, intermediate_courses and advanced_courses each
\* count the enrollments whose course has that difficulty, so that two
\* enrollments in the same course both count; an enrollment whose course is
\* missing or has another difficulty counts in none.
C22_EnrollmentsByDifficulty ==
    Returned =>
        /\ N("beginner_courses") = Cardinality(EnrollmentsOfDifficulty("beginner"))
        /\ N("intermediate_courses") = Cardinality(EnrollmentsOfDifficulty("intermediate"))
        /\ N("advanced_courses") = Cardinality(EnrollmentsOfDifficulty("advanced"))

(***************************************************************************)
(* The row handed to the classifier (app.py:408-412).                      *)
(***************************************************************************)
\* A request for one learner whose handler has called the classifier.
ClassifierCalled ==
    /\ request.endpoint \in {"/predict", "/analytics/learner"}
    /\ "learner_id" \in DOMAIN request.json
    /\ calls.predict_proba = 1

\* The row that call was given.
RowGiven == feature_array(extract_learner_features(request.json.learner_id))

\* C23: every value handed to the classifier is a finite number; a NaN among
\* the features extracted is 0 in the row given to predict_proba.
C23_FiniteClassifierInput ==
    ClassifierCalled => ~HasNaN(RowGiven)

(***************************************************************************)
(* One instant for one run (app.py:180-207, 239-249, 277-285).             *)
(***************************************************************************)
\* The day of a stored timestamp, or of the instant read at line 181 when
\* the document has none.
DayOr(doc, key) == Get(doc, key, Datetime(run.now)).day

\* C24: in one extraction the wall clock is read once, and every day count
\* is computed against the value read then: days_since_join,
\* days_since_last_login, the days since the last activity of each
\* enrollment and the days_ago of each activity, a missing timestamp counting
\* as that same instant; however far the clock has moved on, no two day
\* counts of the run are taken against different instants.
C24_OneInstant ==
    LET learner == bundle.learner
        enrollments == Get(learner, "enrollments", << >>)
        engagement == Get(learner, "engagementData", << >>)
    IN  run.pc # "idle" =>
          /\ run.reads = (IF run.pc = "start" THEN 0 ELSE 1)
          /\ run.pc \in {"login", "loops", "done"} =>
                run.days_since_join = Max(run.now - DayOr(learner, "joinDate"), 0)
          /\ run.pc \in {"loops", "done"} =>
                run.days_since_last_login = Max(run.now - DayOr(engagement, "lastLogin"), 0)
          /\ \A i \in 1..Len(run.course_days) :
                run.course_days[i] = run.now - DayOr(enrollments[i], "lastActivity")
          /\ \A i \in 1..Len(run.days_ago) :
                run.days_ago[i] = run.now - DayOr(bundle.activities[i], "timestamp")

\* A run has returned after the clock moved on behind its `now`, with a join
\* date, a login date, a dated enrollment and a dated activity.
C24_Witness ==
    /\ run.pc = "done"
    /\ run.clock > run.now
    /\ run.days_since_join > 0
    /\ run.days_since_last_login > 0
    /\ \E i \in 1..Len(run.course_days) : run.course_days[i] > 0
    /\ \E i \in 1..Len(run.days_ago) : run.days_ago[i] > 0

(***************************************************************************)
(* Risk indicators (app.py:315-319).                                       *)
(***************************************************************************)
\* 1 when the condition holds and 0 when it does not.
Flag(condition) == IF condition THEN Num(Fx(1)) ELSE Num(0)

\* C25: inactivity_risk is 1 exactly when days_since_last_login > 14 (14
\* gives 0); low_progress_risk is 1 exactly when avg_progress < 0.2 and
\* total_courses > 0; high_risk_courses_ratio is at_risk_courses /
\* max(total_courses, 1); declining_engagement is 1 exactly when
\* recent_activity_trend < 0.5 and recent_activities_30d > 0.
C25_RiskIndicators ==
    Returned =>
        /\ F("inactivity_risk") = Flag(N("days_since_last_login") > 14)
        /\ F("low_progress_risk") =
               Flag(F("avg_progress").v < 20 /\ N("total_courses") > 0)
        /\ F("high_risk_courses_ratio") =
               FDiv(F("at_risk_courses"), Max(N("total_courses"), 1))
        /\ F("declining_engagement") =
               Flag(F("recent_activity_trend").v < 50 /\ N("recent_activities_30d") > 0)

\* A learner who joined 40 days ago, logged in last 20 days ago and has one
\* enrollment, at-risk with progress 0.1.
C25_Witness ==
    /\ Returned
    /\ Get(bundle.learner, "joinDate", utcnow) = Datetime(now - 40)
    /\ Get(Get(bundle.learner, "engagementData", << >>), "lastLogin", utcnow)
           = Datetime(now - 20)
    /\ Len(Get(bundle.learner, "enrollments", << >>)) = 1
    /\ Get(bundle.learner, "enrollments", << >>)[1].progress = Double(Num(10))
    /\ Get(bundle.learner, "enrollments", << >>)[1].status = "at-risk"
    /\ F("inactivity_risk") = Num(Fx(1))
    /\ F("low_progress_risk") = Num(Fx(1))
    /\ F("high_risk_courses_ratio") = Num(Fx(1))

(***************************************************************************)
(* Training and serving extractor (app.py:209-319, train:108-218).         *)
(***************************************************************************)
\* Both extractors have returned a vector for the bundle.
BothReturned ==
    /\ extracted.done
    /\ "row" \in DOMAIN extracted
    /\ extracted.features # NoFeatures
    /\ extracted.row # NoFeatures

\* C26: extract_comprehensive_features and extract_learner_features give
\* every named feature the same value for the same learner, enrollments,
\* activities, courses and now, also without enrollments, without a
\* riskScore and at days_since_join = 0.
C26_SameFeatureValues ==
    BothReturned =>
        \A i \in 1..Len(FeatureNames) : extracted.row[i] = extracted.features[i]

(***************************************************************************)
(* Failures of the extraction (app.py:159-173, 370-373, 403-428, 513-516). *)
(***************************************************************************)
\* A request for one learner has been handled.
OneLearnerHandled ==
    /\ request.endpoint \in {"/predict", "/analytics/learner"}
    /\ "learner_id" \in DOMAIN request.json
    /\ response # NoResponse

\* The identifiers the extraction fails on: malformed, no such learner, a
\* totalHours that is no number, a joinDate string that makes the date
\* subtraction raise.
FailingIds == {IdMalformed, IdAbsent, IdU, IdZ}

\* C27: no failure inside extract_learner_features reaches its caller as an
\* exception: /predict and /analytics/learner answer 404 without calling the
\* classifier whenever the extraction fails, whatever the model, and answer
\* 500 only when the extraction gave a vector and the classifier call
\* raised.
C27_ExtractionFailuresAre404 ==
    OneLearnerHandled =>
        /\ request.json.learner_id \in FailingIds =>
              /\ response.status = 404
              /\ calls.predict_proba = 0
        /\ response.status = 500 =>
              /\ request.json.learner_id \notin FailingIds
              /\ calls.predict_proba = 1
              /\ response.body = [error |-> ClassifierError]
        /\ response.status \in {200, 404, 500}

\* /analytics/learner has answered 404 for the learner whose joinDate is a
\* Z string, with the store asked once and the classifier not at all.
C27_Witness ==
    /\ OneLearnerHandled
    /\ request.endpoint = "/analytics/learner"
    /\ request.json.learner_id = IdZ
    /\ response.status = 404
    /\ calls.find_one = 1
    /\ calls.predict_proba = 0

(***************************************************************************)
(* Positions in the vector (app.py:321-365, 522-527, 34-35).               *)
(***************************************************************************)
\* The values the extraction computed for the bundle, by name.
Computed == FeatureValues(bundle.learner, bundle.activities)

\* C28: in the vector returned the 0-based positions 38, 7, 12, 15 and 39
\* hold total_courses, avg_progress, completion_rate, days_since_last_login
\* and total_hours, and the vector has 42 entries, the n_features_in_ of
\* MockModel.
C28_MetricPositions ==
    Returned =>
        /\ extracted.features[38 + 1] = Num(Fx(Len(Get(bundle.learner, "enrollments", << >>))))
        /\ extracted.features[38 + 1] = Computed.total_courses
        /\ extracted.features[7 + 1] = Computed.avg_progress
        /\ extracted.features[12 + 1] = Computed.completion_rate
        /\ extracted.features[15 + 1] = Computed.days_since_last_login
        /\ extracted.features[39 + 1] = Computed.total_hours
        /\ Len(extracted.features) = 42
        /\ Len(extracted.features) = MockModel.n_features_in_

\* A learner with two enrollments of progress 0.1 and 0.3, 20 hours and a
\* last login 20 days ago: the four positions hold 2, 0.2, 20 and 20.
C28_Witness ==
    /\ Returned
    /\ extracted.features[38 + 1] = Num(Fx(2))
    /\ extracted.features[7 + 1] = Num(20)
    /\ extracted.features[15 + 1] = Num(Fx(20))
    /\ extracted.features[39 + 1] = Num(Fx(20))
    /\ extracted.features[12 + 1] = Num(0)

(***************************************************************************)
(* Nested counts (app.py:226-229, 263-300, 318).                           *)
(***************************************************************************)
\* A ratio feature lies between 0 and 1.
UnitInterval(x) == ~x.nan /\ 0 <= x.v /\ x.v <= Fx(1)

\* C29: 0 <= recent_activities_7d <= recent_activities_30d <=
\* total_activities, each count by type is at most total_activities, and
\* recent_activity_trend lies in [0, 1]; completed_courses + active_courses +
\* at_risk_courses <= total_courses, and high_risk_courses_ratio lies in
\* [0, 1].
C29_NestedCounts ==
    Returned =>
        /\ 0 <= N("recent_activities_7d")
        /\ N("recent_activities_7d") <= N("recent_activities_30d")
        /\ N("recent_activities_30d") <= N("total_activities")
        /\ \A type \in {"video_activities", "quiz_activities", "forum_activities",
                        "assignment_activities"} :
              0 <= N(type) /\ N(type) <= N("total_activities")
        /\ UnitInterval(F("recent_activity_trend"))
        /\ N("completed_courses") + N("active_courses") + N("at_risk_courses")
              <= N("total_courses")
        /\ UnitInterval(F("high_risk_courses_ratio"))

\* Two events of which one is in the 7-day window and one older than 30
\* days, and two enrollments of which one is at risk.
C29_Witness ==
    /\ Returned
    /\ N("total_activities") = 2
    /\ N("recent_activities_30d") = 1
    /\ N("recent_activities_7d") = 1
    /\ F("recent_activity_trend") = Num(Fx(1))
    /\ N("total_courses") = 2
    /\ N("at_risk_courses") = 1
    /\ F("high_risk_courses_ratio") = Num(50)

(***************************************************************************)
(* Day counts (app.py:184-207, 239-252).                                   *)
(***************************************************************************)
\* C30: days_since_join, days_since_last_login,
\* avg_days_since_course_activity and max_days_since_course_activity are
\* >= 0 in every vector returned, also when a stored timestamp lies after
\* now.
C30_DayCountsNonNegative ==
    Returned =>
        \A name \in {"days_since_join", "days_since_last_login",
                     "avg_days_since_course_activity",
                     "max_days_since_course_activity"} :
            ~F(name).nan /\ F(name).v >= 0

====
